---- MODULE Spec2Model ----
(***************************************************************************)
(* DatabaseService (src/src/services/database/database.ts): the IndexedDB  *)
(* persistence and audit-logging service.  Every public method is an       *)
(* async function; a call is modelled as the caller's steps between its    *)
(* await points, each store request (add/get/put/delete/getAll/count/      *)
(* clear) being one atomic step of the underlying store.                   *)
(***************************************************************************)
EXTENDS Integers, Sequences, FiniteSets, TLC

\* ---------------------------------------------------------------- bounds
\* Largest number of audit entries written in a behaviour.
MaxAudit == 2
\* Largest number of audit entries written to a database that earlier
\* sessions have filled (SpecWrites).
MaxWrites == 1
\* Largest value of the wall clock (Date.now()) in a behaviour.
MaxClock == 1
\* Largest number of interval callbacks during one recognize call.
MaxReports == 8
\* Largest number of times a modal is opened in a behaviour.
MaxOpens == 2

\* ------------------------------------------------------ program constants
DB_VERSION == 1

\* ------------------------------------------------------------ input data
Callers == {1, 2}

DocIds == {1, 2}

\* Document records the callers pass in.  The fields encryptedData,
\* metadata, hash and created are carried through every operation
\* untouched; hash stands for them.
DocInputs ==
  { [id |-> 1, name |-> "b-doc", type |-> "application/pdf", size |-> 100,
     modified |-> 1, hash |-> "h1"],
    [id |-> 1, name |-> "a-doc", type |-> "image/jpeg", size |-> 200,
     modified |-> 0, hash |-> "h2"],
    [id |-> 2, name |-> "a-doc", type |-> "image/jpeg", size |-> 300,
     modified |-> 0, hash |-> "h1"] }

ResultInputs ==
  { [id |-> 1, documentId |-> 1, processingType |-> "ocr",
     status |-> "success", confidence |-> 95, created |-> 0],
    [id |-> 2, documentId |-> 1, processingType |-> "classification",
     status |-> "failed", confidence |-> 10, created |-> 1] }

TemplateInputs ==
  { [id |-> 1, name |-> "Receipt", documentType |-> "image/jpeg",
     isActive |-> FALSE, version |-> 2],
    [id |-> 2, name |-> "Invoice", documentType |-> "application/pdf",
     isActive |-> TRUE, version |-> 1] }

\* Entries a caller passes to the public addAuditLog (no id: the store
\* assigns it).
AuditInputs ==
  { [timestamp |-> 0, userHash |-> "u1", action |-> "user_login",
     resourceType |-> "session", resourceId |-> 0, result |-> "success",
     details |-> <<>>] }

DocTypes == {"application/pdf", "image/jpeg"}

\* QueryOptions.  An omitted limit is a record without the field; an
\* omitted useIndex or sortBy is "" and an omitted offset is 0 (the code
\* reads them as `options?.useIndex`, `options?.sortBy` and
\* `options?.offset || 0`).
ListOptions ==
  { [useIndex |-> "", sortBy |-> "", sortDirection |-> "asc",
     offset |-> 0],
    [useIndex |-> "byName", sortBy |-> "size", sortDirection |-> "desc",
     offset |-> 1, limit |-> 1] }

\* Records that earlier sessions may have left in the database, besides
\* the ones above: a third document, result and template.
StoredDocs ==
  DocInputs \cup
  { [id |-> 3, name |-> "b-doc", type |-> "application/pdf", size |-> 200,
     modified |-> 1, hash |-> "h2"] }

StoredResults ==
  ResultInputs \cup
  { [id |-> 3, documentId |-> 2, processingType |-> "ocr",
     status |-> "success", confidence |-> 80, created |-> 0] }

StoredTemplates ==
  TemplateInputs \cup
  { [id |-> 3, name |-> "Invoice", documentType |-> "image/jpeg",
     isActive |-> TRUE, version |-> 1] }

\* The contents an object store with keyPath "id" can hold of the records
\* of pool: at least `atLeast` records, one per id.
StoresOf(pool, atLeast) ==
  LET ids == {r.id : r \in pool} IN
  UNION { {f \in [S -> pool] : \A i \in S : f[i].id = i} :
          S \in {T \in SUBSET ids : Cardinality(T) >= atLeast} }

\* QueryOptions of the sorted and paginated listing of documents.
SortOptions ==
  LET unlimited == [useIndex : {""}, sortBy : {"", "name", "size"},
                    sortDirection : {"asc", "desc"}, offset : {0, 1, 2}]
  IN unlimited
     \cup {o @@ [limit |-> l] : o \in unlimited, l \in {0, 1, 2}}
     \cup { [useIndex |-> "", sortBy |-> "size", sortDirection |-> "",
             offset |-> 0],
            [useIndex |-> "bySize", sortBy |-> "name",
             sortDirection |-> "asc", offset |-> 0],
            [useIndex |-> "noSuchIndex", sortBy |-> "size",
             sortDirection |-> "desc", offset |-> 0] }

\* QueryOptions of the listings that only paginate.
PageOptions ==
  LET unlimited == [useIndex : {""}, sortBy : {""}, sortDirection : {"asc"},
                    offset : {0, 1}]
  IN unlimited \cup {o @@ [limit |-> l] : o \in unlimited, l \in {0, 1, 2}}

\* ----------------------------------------------------------------- state
VARIABLES
  window,            \* typeof window !== "undefined"
  dbPromise,         \* this.dbPromise: "null", "pending" or "fulfilled"
  openCalls,         \* number of openDB calls started by this instance
  closed,            \* db.close() has run on the connection
  documents,         \* object store "documents": id -> Document
  processedResults,  \* object store "processedResults": id -> result
  templates,         \* object store "templates": id -> template
  auditLogs,         \* object store "auditLogs": key -> AuditLog
  auditKeyGen,       \* key generator of auditLogs (autoIncrement)
  now,               \* the wall clock read by new Date() / Date.now()
  pc,                \* per caller: "idle", "await", "run" or "done"
  req,               \* per caller: the call in flight [op, arg]
  rejected,          \* per caller: ensureInitialized() rejected
  local,             \* per caller: the call's local variables
  result,            \* per caller: what the call returned or threw
  pre,               \* per caller: the stores as they were at the call
  cryptoCall,        \* SecurityService: an encrypt call and a decrypt call
  upload,            \* DocumentsPage: a run of handleFileUpload
  ocr,               \* OCRService: its fields and the calls in flight
  classificationModal,  \* ClassificationModal: its state and its runs
  ocrModal           \* OCRProcessingModal: its state and its runs

vars == <<window, dbPromise, openCalls, closed, documents, processedResults,
          templates, auditLogs, auditKeyGen, now, pc, req, rejected, local,
          result, pre, cryptoCall, upload, ocr, classificationModal,
          ocrModal>>

\* The components other than the DatabaseService.
ext == <<cryptoCall, upload, ocr, classificationModal, ocrModal>>

\* A component that takes no step in the specification at hand.
Off == [phase |-> "off"]

ExtOff ==
  /\ cryptoCall = Off
  /\ upload = Off
  /\ ocr = Off
  /\ classificationModal = Off
  /\ ocrModal = Off

stores == <<documents, processedResults, templates, auditLogs, auditKeyGen>>
conn == <<window, dbPromise, openCalls, closed>>

\* ------------------------------------------------------- store primitives
Empty == [k \in {} |-> 0]

Min(S) == CHOOSE x \in S : \A y \in S : x <= y

\* Keys of a store in ascending order (the order getAll() returns).
RECURSIVE KeySeq(_)
KeySeq(S) == IF S = {} THEN <<>> ELSE <<Min(S)>> \o KeySeq(S \ {Min(S)})

\* IDBObjectStore.getAll(): the records in ascending primary-key order.
GetAll(store) ==
  LET ks == KeySeq(DOMAIN store) IN [i \in 1..Len(ks) |-> store[ks[i]]]

\* IDBObjectStore.put / add of a record under key k.
Put(store, k, rec) ==
  [x \in (DOMAIN store) \cup {k} |-> IF x = k THEN rec ELSE store[x]]

\* Variant: put() semantics, no uniqueness constraint.
KeyExists_put(store, k) == FALSE

\* The uniqueness constraint of add(): a record with key k is stored.
KeyExists(store, k) == k \in DOMAIN store

\* IDBObjectStore.delete(k).
Remove(store, k) == [x \in (DOMAIN store) \ {k} |-> store[x]]

\* Ordering of the string values that occur as sort or index keys.
StrRank(s) ==
  CASE s = "a-doc" -> 1
    [] s = "b-doc" -> 2
    [] s = "application/pdf" -> 1
    [] s = "image/jpeg" -> 2
    [] s = "h1" -> 1
    [] s = "h2" -> 2
    [] s = "document_add" -> 1
    [] s = "document_delete" -> 2
    [] s = "document_update" -> 3
    [] s = "processing_result_add" -> 4
    [] s = "template_add" -> 5
    [] s = "user_login" -> 6
    [] s = "document" -> 1
    [] s = "processing_result" -> 2
    [] s = "session" -> 3
    [] s = "template" -> 4
    [] s = "success" -> 1
    [] s = "system" -> 1
    [] s = "u1" -> 2
    [] OTHER -> 0

\* Fields holding numbers or Dates; every other field holds a string.
NumericFields ==
  {"id", "size", "modified", "created", "timestamp", "confidence", "version",
   "documentId", "resourceId"}

\* The value of rec[f] as JavaScript's < and > order it; <<>> when the
\* record has no such field (undefined compares false with everything).
FieldKey(rec, f) ==
  IF f \notin DOMAIN rec THEN <<>>
  ELSE IF f \in NumericFields THEN <<rec[f]>> ELSE <<StrRank(rec[f])>>

\* The comparator of getAllDocuments: -1, 0 or 1 times the direction.
Compare(a, b, sortBy, sortDirection) ==
  LET aVal == FieldKey(a, sortBy)
      bVal == FieldKey(b, sortBy)
      direction == IF sortDirection = "desc" THEN -1 ELSE 1
  IN IF aVal = <<>> \/ bVal = <<>> THEN 0
     ELSE IF aVal[1] < bVal[1] THEN -1 * direction
     ELSE IF aVal[1] > bVal[1] THEN 1 * direction
     ELSE 0

\* Variant: x is inserted in front of the elements it compares equal to.
InsertOrdered_front(s, x, sortBy, sortDirection) ==
  LET after == {i \in 1..Len(s) : Compare(s[i], x, sortBy, sortDirection) >= 0}
      at == IF after = {} THEN Len(s) + 1 ELSE Min(after)
  IN SubSeq(s, 1, at - 1) \o <<x>> \o SubSeq(s, at, Len(s))

\* x inserted into the ordered sequence s behind every element that does
\* not compare greater than x.
InsertOrdered(s, x, sortBy, sortDirection) ==
  LET after == {i \in 1..Len(s) : Compare(s[i], x, sortBy, sortDirection) > 0}
      at == IF after = {} THEN Len(s) + 1 ELSE Min(after)
  IN SubSeq(s, 1, at - 1) \o <<x>> \o SubSeq(s, at, Len(s))

\* Array.prototype.sort with the comparator above (a stable sort).
RECURSIVE SortBy(_, _, _)
SortBy(s, sortBy, sortDirection) ==
  IF s = <<>> THEN <<>>
  ELSE InsertOrdered(SortBy(SubSeq(s, 1, Len(s) - 1), sortBy, sortDirection),
                     s[Len(s)], sortBy, sortDirection)

\* The field an index of a store is built on; "" when the store has no
\* index of that name (IDBObjectStore.index() then throws).
IndexField(storeName, useIndex) ==
  CASE storeName = "documents" /\ useIndex = "byType" -> "type"
    [] storeName = "documents" /\ useIndex = "byModified" -> "modified"
    [] storeName = "documents" /\ useIndex = "bySize" -> "size"
    [] storeName = "documents" /\ useIndex = "byName" -> "name"
    [] storeName = "auditLogs" /\ useIndex = "byTimestamp" -> "timestamp"
    [] storeName = "auditLogs" /\ useIndex = "byUserHash" -> "userHash"
    [] storeName = "auditLogs" /\ useIndex = "byAction" -> "action"
    [] storeName = "auditLogs" /\ useIndex = "byResourceType" -> "resourceType"
    [] storeName = "auditLogs" /\ useIndex = "byResult" -> "result"
    [] OTHER -> ""

\* IDBIndex.getAll(): the records in index-key order, records of one key
\* in primary-key order.
IndexGetAll(store, field) == SortBy(GetAll(store), field, "asc")

\* The `if (options?.useIndex) { try ... catch ... } else ...` retrieval of
\* getAllDocuments and getAuditLogs.
Retrieve(store, storeName, useIndex) ==
  IF useIndex # "" /\ IndexField(storeName, useIndex) # ""
  THEN IndexGetAll(store, IndexField(storeName, useIndex))
  ELSE GetAll(store)

\* Variant: the limit is taken as the end position, slice(offset, limit).
Paginate_end(s, options) ==
  LET offset == options.offset
      limit == IF "limit" \in DOMAIN options THEN options.limit ELSE 0
      upto == IF limit < Len(s) THEN limit ELSE Len(s)
  IN IF limit # 0 THEN SubSeq(s, offset + 1, upto)
     ELSE IF offset > 0 THEN SubSeq(s, offset + 1, Len(s))
     ELSE s

\* The "Apply pagination" block shared by the list operations.
Paginate(s, options) ==
  LET offset == options.offset
      limit == IF "limit" \in DOMAIN options THEN options.limit ELSE 0
      upto == IF offset + limit < Len(s) THEN offset + limit ELSE Len(s)
  IN IF limit # 0 THEN SubSeq(s, offset + 1, upto)
     ELSE IF offset > 0 THEN SubSeq(s, offset + 1, Len(s))
     ELSE s

\* ------------------------------------------------------ result envelopes
ClientSideOnly == "DatabaseService can only be used on the client side"
ConstraintError == "Key already exists in the object store"
InvalidStateError == "The database connection is closing"

NoResult ==
  [kind |-> "none", success |-> FALSE, data |-> <<>>, error |-> <<>>,
   recordsAffected |-> 0]

\* The envelope the try block returns; data is <<>> for `data: undefined`.
Success(data, n) ==
  [kind |-> "envelope", success |-> TRUE, data |-> data, error |-> <<>>,
   recordsAffected |-> n]

\* Variant: the error message is lost.
Failure_noMessage(message) ==
  [kind |-> "envelope", success |-> FALSE, data |-> <<>>, error |-> <<>>,
   recordsAffected |-> 0]

\* The envelope every catch block returns.
Failure(message) ==
  [kind |-> "envelope", success |-> FALSE, data |-> <<>>,
   error |-> <<message>>, recordsAffected |-> 0]

\* close() is not wrapped: it resolves with no value or rejects.
Resolved ==
  [kind |-> "void", success |-> FALSE, data |-> <<>>, error |-> <<>>,
   recordsAffected |-> 0]

Thrown(message) ==
  [kind |-> "thrown", success |-> FALSE, data |-> <<>>,
   error |-> <<message>>, recordsAffected |-> 0]

\* ------------------------------------------------------------------ Init
NoReq == [op |-> "none", arg |-> 0]
NoLocal == [step |-> 0, doc |-> <<>>, counts |-> <<>>]
NoPre ==
  [documents |-> Empty, processedResults |-> Empty, templates |-> Empty,
   auditLogs |-> Empty, window |-> FALSE, closed |-> FALSE, openCalls |-> 0,
   last |-> NoReq]

\* The state after `new DatabaseService()`: the constructor starts the open
\* when a window exists.  The stores of a fresh database are empty.
Init ==
  /\ window \in BOOLEAN
  /\ dbPromise = IF window THEN "pending" ELSE "null"
  /\ openCalls = IF window THEN 1 ELSE 0
  /\ closed = FALSE
  /\ documents = Empty
  /\ processedResults = Empty
  /\ templates = Empty
  /\ auditLogs = Empty
  /\ auditKeyGen = 0
  /\ now = 0
  /\ pc = [c \in Callers |-> "idle"]
  /\ req = [c \in Callers |-> NoReq]
  /\ rejected = [c \in Callers |-> FALSE]
  /\ local = [c \in Callers |-> NoLocal]
  /\ result = [c \in Callers |-> NoResult]
  /\ pre = [c \in Callers |-> NoPre]
  /\ ExtOff

\* ------------------------------------------------------ the environment
\* Time passes between any two steps.
Tick ==
  /\ now < MaxClock
  /\ now' = now + 1
  /\ UNCHANGED <<conn, stores, ext, pc, req, rejected, local, result, pre>>

\* `typeof window` is evaluated at every call: an instance constructed
\* where no window existed is used later where one exists.
WindowAppears ==
  /\ ~window
  /\ window' = TRUE
  /\ UNCHANGED <<dbPromise, openCalls, closed, stores, now, ext, pc, req,
                 rejected, local, result, pre>>

\* The promise of openDB (upgrade callback included) is fulfilled.
openDB ==
  /\ dbPromise = "pending"
  /\ dbPromise' = "fulfilled"
  /\ UNCHANGED <<window, openCalls, closed, stores, now, ext, pc, req, rejected,
                 local, result, pre>>

\* ----------------------------------------------------- ensureInitialized
\* initializeDatabase(): calls openDB and returns its promise.
initializeDatabase ==
  /\ dbPromise' = "pending"
  /\ openCalls' = openCalls + 1

\* Variant: no check for a window.
ensureInitialized_noCheck(c) ==
  /\ rejected' = [rejected EXCEPT ![c] = FALSE]
  /\ IF dbPromise = "null"
     THEN initializeDatabase
     ELSE UNCHANGED <<dbPromise, openCalls>>

\* Variant: a closed connection is opened again.
ensureInitialized_reopen(c) ==
  IF ~window
  THEN /\ rejected' = [rejected EXCEPT ![c] = TRUE]
       /\ UNCHANGED <<dbPromise, openCalls>>
  ELSE /\ rejected' = [rejected EXCEPT ![c] = FALSE]
       /\ IF dbPromise = "null" \/ closed
          THEN initializeDatabase
          ELSE UNCHANGED <<dbPromise, openCalls>>

\* Variant: the guard tests for an opened connection, not for the promise.
ensureInitialized_racy(c) ==
  IF ~window
  THEN /\ rejected' = [rejected EXCEPT ![c] = TRUE]
       /\ UNCHANGED <<dbPromise, openCalls>>
  ELSE /\ rejected' = [rejected EXCEPT ![c] = FALSE]
       /\ IF dbPromise # "fulfilled"
          THEN initializeDatabase
          ELSE UNCHANGED <<dbPromise, openCalls>>

\* The synchronous body of ensureInitialized() as run by caller c.
ensureInitialized(c) ==
  IF ~window
  THEN /\ rejected' = [rejected EXCEPT ![c] = TRUE]
       /\ UNCHANGED <<dbPromise, openCalls>>
  ELSE /\ rejected' = [rejected EXCEPT ![c] = FALSE]
       /\ IF dbPromise = "null"
          THEN initializeDatabase
          ELSE UNCHANGED <<dbPromise, openCalls>>

MutatingOps ==
  {"addDocument", "updateDocument", "deleteDocument", "addProcessingResult",
   "addTemplate", "addAuditLog"}

\* Audit entries of earlier sessions: they carry a time before this
\* session's clock started.
Inherited ==
  Cardinality({k \in DOMAIN auditLogs : auditLogs[k].timestamp < 0})

\* Calls in flight that may still append an audit entry.
InFlight ==
  Cardinality({c \in Callers : pc[c] \in {"await", "run"}
                                /\ req[c].op \in MutatingOps})

\* What the properties need of the state at the call: the stores, the
\* connection, and the call the caller awaited just before this one.
Snapshot(c) ==
  [documents |-> documents, processedResults |-> processedResults,
   templates |-> templates, auditLogs |-> auditLogs, window |-> window,
   closed |-> closed, openCalls |-> openCalls, last |-> pre[c].last]

\* The calls remembered as "the call just before".
Remembered == {"addDocument", "deleteDocument", "clearAllData"}

\* Caller c calls method op with argument arg: the method runs up to its
\* first await, `const db = await this.ensureInitialized()`.
Invoke(c, op, arg) ==
  /\ pc[c] = "idle"
  /\ op \in MutatingOps => auditKeyGen + InFlight < MaxAudit + Inherited
  /\ ensureInitialized(c)
  /\ pc' = [pc EXCEPT ![c] = "await"]
  /\ req' = [req EXCEPT ![c] = [op |-> op, arg |-> arg]]
  /\ local' = [local EXCEPT ![c] = NoLocal]
  /\ result' = [result EXCEPT ![c] = NoResult]
  /\ pre' = [pre EXCEPT ![c] = Snapshot(c)]
  /\ UNCHANGED <<window, closed, stores, now, ext>>

\* The calls a caller can issue.
Call(c) ==
  \/ \E d \in DocInputs : Invoke(c, "addDocument", d)
  \/ \E i \in DocIds : Invoke(c, "getDocument", i)
  \/ \E d \in DocInputs : Invoke(c, "updateDocument", d)
  \/ \E i \in DocIds : Invoke(c, "deleteDocument", i)
  \/ \E o \in ListOptions : Invoke(c, "getAllDocuments", o)
  \/ \E t \in DocTypes, o \in ListOptions :
       Invoke(c, "getDocumentsByType", [type |-> t, options |-> o])
  \/ \E r \in ResultInputs : Invoke(c, "addProcessingResult", r)
  \/ \E i \in DocIds, o \in ListOptions :
       Invoke(c, "getProcessingResultsByDocument",
              [documentId |-> i, options |-> o])
  \/ \E t \in TemplateInputs : Invoke(c, "addTemplate", t)
  \/ \E o \in ListOptions : Invoke(c, "getActiveTemplates", o)
  \/ \E l \in AuditInputs : Invoke(c, "addAuditLog", l)
  \/ \E o \in ListOptions : Invoke(c, "getAuditLogs", o)
  \/ Invoke(c, "getDatabaseStats", 0)
  \/ Invoke(c, "clearAllData", 0)
  \/ Invoke(c, "close", 0)

\* ------------------------------------------------------ handler plumbing
\* The awaited ensureInitialized() has resolved with the connection.
Resumed(c, op) ==
  /\ req[c].op = op
  /\ pc[c] = "await"
  /\ ~rejected[c]
  /\ dbPromise = "fulfilled"

At(c, op, n) == req[c].op = op /\ pc[c] = "run" /\ local[c].step = n

Return(c, r) ==
  /\ pc' = [pc EXCEPT ![c] = "done"]
  /\ result' = [result EXCEPT ![c] = r]

Goto(c, n) ==
  /\ pc' = [pc EXCEPT ![c] = "run"]
  /\ local' = [local EXCEPT ![c].step = n]
  /\ UNCHANGED result

\* A rejected ensureInitialized(): the catch block of the method turns the
\* error into a failed envelope; close() has no try and rejects.
EnvironmentError(c) ==
  /\ pc[c] = "await"
  /\ rejected[c]
  /\ Return(c, IF req[c].op = "close" THEN Thrown(ClientSideOnly)
               ELSE Failure(ClientSideOnly))
  /\ UNCHANGED <<conn, stores, now, ext, req, rejected, local, pre>>

\* The caller takes the settled promise's value.
Finish(c) ==
  /\ pc[c] = "done"
  /\ pc' = [pc EXCEPT ![c] = "idle"]
  /\ req' = [req EXCEPT ![c] = NoReq]
  /\ local' = [local EXCEPT ![c] = NoLocal]
  /\ result' = [result EXCEPT ![c] = NoResult]
  /\ pre' = [pre EXCEPT ![c] =
               [NoPre EXCEPT !.last =
                  IF result[c].success /\ req[c].op \in Remembered
                  THEN req[c] ELSE NoReq]]
  /\ UNCHANGED <<conn, stores, now, ext, rejected>>

\* ------------------------------------------------------------ audit logs
AuditEntry(action, resourceType, resourceId, details) ==
  [timestamp |-> now, userHash |-> "system", action |-> action,
   resourceType |-> resourceType, resourceId |-> resourceId,
   result |-> "success", details |-> details]

\* Variant: the entry carries a fixed id and is written with put().
AuditAdd_fixedKey(log) ==
  /\ auditKeyGen' = auditKeyGen + 1
  /\ auditLogs' = Put(auditLogs, 1, [id |-> 1] @@ log)

\* db.add("auditLogs", log): the key generator assigns the next key.
AuditAdd(log) ==
  /\ auditKeyGen' = auditKeyGen + 1
  /\ auditLogs' = Put(auditLogs, auditKeyGen + 1,
                      [id |-> auditKeyGen + 1] @@ log)

\* Variant: the method forgets to log.
LogAction_skip(log) == UNCHANGED <<auditLogs, auditKeyGen>>

\* addAuditLog(log) as awaited inside the other methods: it writes the
\* entry, or catches the store's error and returns a failed envelope that
\* the calling method does not look at.
LogAction(log) ==
  IF closed THEN UNCHANGED <<auditLogs, auditKeyGen>> ELSE AuditAdd(log)

\* The public addAuditLog(log).
addAuditLog(c) ==
  /\ Resumed(c, "addAuditLog")
  /\ IF closed
     THEN /\ Return(c, Failure(InvalidStateError))
          /\ UNCHANGED <<auditLogs, auditKeyGen>>
     ELSE /\ AuditAdd(req[c].arg)
          /\ Return(c, Success(<<auditKeyGen + 1>>, 1))
  /\ UNCHANGED <<conn, documents, processedResults, templates, now, ext, req,
                 rejected, local, pre>>

\* -------------------------------------------------------------- documents
\* Variant: add stamps the record like update does.
StoredOnAdd_stamped(doc) == [doc EXCEPT !.modified = now]

\* db.add("documents", doc): the record exactly as passed.
StoredOnAdd(doc) == doc

\* addDocument(doc): db.add, then the audit entry, then the envelope.
addDocument(c) ==
  LET doc == req[c].arg IN
  \/ /\ Resumed(c, "addDocument")
     /\ IF closed
        THEN Return(c, Failure(InvalidStateError))
             /\ UNCHANGED <<documents, local>>
        ELSE IF KeyExists(documents, doc.id)
        THEN Return(c, Failure(ConstraintError))
             /\ UNCHANGED <<documents, local>>
        ELSE documents' = Put(documents, doc.id, StoredOnAdd(doc))
             /\ Goto(c, 1)
     /\ UNCHANGED <<conn, processedResults, templates, auditLogs,
                    auditKeyGen, now, ext, req, rejected, pre>>
  \/ /\ At(c, "addDocument", 1)
     /\ LogAction(AuditEntry("document_add", "document", doc.id,
                             [name |-> doc.name, type |-> doc.type,
                              size |-> doc.size]))
     /\ Return(c, Success(<<doc.id>>, 1))
     /\ UNCHANGED <<conn, documents, processedResults, templates, now, ext, req,
                    rejected, local, pre>>

\* db.get("documents", id): <<>> for undefined.
Get(store, k) == IF k \in DOMAIN store THEN <<store[k]>> ELSE <<>>

\* Variant: always one record.
Affected_one(found) == 1

\* `recordsAffected: document ? 1 : 0`
Affected(found) == IF found # <<>> THEN 1 ELSE 0

\* Variant: the read is logged like a write.
getDocument_logged(c) ==
  LET document == Get(documents, req[c].arg) IN
  /\ Resumed(c, "getDocument")
  /\ Return(c, IF closed THEN Failure(InvalidStateError)
               ELSE Success(document, Affected(document)))
  /\ LogAction(AuditEntry("document_read", "document", req[c].arg, <<>>))
  /\ UNCHANGED <<conn, documents, processedResults, templates, now, ext, req,
                 rejected, local, pre>>

\* getDocument(id): db.get; an absent record is `data: undefined`.
getDocument(c) ==
  LET document == Get(documents, req[c].arg) IN
  /\ Resumed(c, "getDocument")
  /\ Return(c, IF closed THEN Failure(InvalidStateError)
               ELSE Success(document, Affected(document)))
  /\ UNCHANGED <<conn, stores, now, ext, req, rejected, local, pre>>

\* Variant: the caller's modified is written.
Touched_asPassed(doc) == doc

\* `doc.modified = new Date()`: the record updateDocument writes.
Touched(doc) == [doc EXCEPT !.modified = now]

\* updateDocument(doc): stamps modified, db.put, then the audit entry.
\* Variant: an identifier that is not stored is refused.
updateDocument_strict(c) ==
  LET doc == req[c].arg IN
  \/ /\ Resumed(c, "updateDocument")
     /\ IF closed
        THEN Return(c, Failure(InvalidStateError))
             /\ UNCHANGED <<documents, local>>
        ELSE IF ~KeyExists(documents, doc.id)
        THEN Return(c, Success(<<>>, 0))
             /\ UNCHANGED <<documents, local>>
        ELSE documents' = Put(documents, doc.id, Touched(doc))
             /\ Goto(c, 1)
     /\ UNCHANGED <<conn, processedResults, templates, auditLogs,
                    auditKeyGen, now, ext, req, rejected, pre>>
  \/ /\ At(c, "updateDocument", 1)
     /\ LogAction(AuditEntry("document_update", "document", doc.id,
                             [name |-> doc.name, type |-> doc.type]))
     /\ Return(c, Success(<<doc.id>>, 1))
     /\ UNCHANGED <<conn, documents, processedResults, templates, now, ext,
                    req, rejected, local, pre>>

updateDocument(c) ==
  LET doc == req[c].arg IN
  \/ /\ Resumed(c, "updateDocument")
     /\ IF closed
        THEN Return(c, Failure(InvalidStateError))
             /\ UNCHANGED <<documents, local>>
        ELSE documents' = Put(documents, doc.id, Touched(doc))
             /\ Goto(c, 1)
     /\ UNCHANGED <<conn, processedResults, templates, auditLogs,
                    auditKeyGen, now, ext, req, rejected, pre>>
  \/ /\ At(c, "updateDocument", 1)
     /\ LogAction(AuditEntry("document_update", "document", doc.id,
                             [name |-> doc.name, type |-> doc.type]))
     /\ Return(c, Success(<<doc.id>>, 1))
     /\ UNCHANGED <<conn, documents, processedResults, templates, now, ext, req,
                    rejected, local, pre>>

\* `if (doc)` of deleteDocument: whether the audit entry is written.
LogsDelete(found) == found # <<>>

\* Variant: the deletion cascades to the document's processing results.
deleteDocument_cascade(c) ==
  LET id == req[c].arg
      doc == local[c].doc IN
  \/ /\ Resumed(c, "deleteDocument")
     /\ IF closed
        THEN Return(c, Failure(InvalidStateError)) /\ UNCHANGED local
        ELSE /\ pc' = [pc EXCEPT ![c] = "run"]
             /\ local' = [local EXCEPT
                  ![c].step = 1,
                  ![c].doc = Get(documents, id)]
             /\ UNCHANGED result
     /\ UNCHANGED <<conn, stores, now, ext, req, rejected, pre>>
  \/ /\ At(c, "deleteDocument", 1)
     /\ IF closed
        THEN Return(c, Failure(InvalidStateError))
             /\ UNCHANGED <<documents, processedResults, local>>
        ELSE /\ documents' = Remove(documents, id)
             /\ processedResults' =
                  [k \in {x \in DOMAIN processedResults :
                            processedResults[x].documentId # id}
                     |-> processedResults[k]]
             /\ IF LogsDelete(doc)
                THEN Goto(c, 2)
                ELSE Return(c, Success(<<TRUE>>, Affected(doc)))
                     /\ UNCHANGED local
     /\ UNCHANGED <<conn, templates, auditLogs, auditKeyGen, now, ext, req,
                    rejected, pre>>
  \/ /\ At(c, "deleteDocument", 2)
     /\ LogAction(AuditEntry("document_delete", "document", id,
                             [name |-> doc[1].name, type |-> doc[1].type]))
     /\ Return(c, Success(<<TRUE>>, Affected(doc)))
     /\ UNCHANGED <<conn, documents, processedResults, templates, now, ext, req,
                    rejected, local, pre>>

\* deleteDocument(id): db.get, db.delete, the audit entry when a record
\* was found, then the envelope.
deleteDocument(c) ==
  LET id == req[c].arg
      doc == local[c].doc IN
  \/ /\ Resumed(c, "deleteDocument")
     /\ IF closed
        THEN Return(c, Failure(InvalidStateError)) /\ UNCHANGED local
        ELSE /\ pc' = [pc EXCEPT ![c] = "run"]
             /\ local' = [local EXCEPT
                  ![c].step = 1,
                  ![c].doc = Get(documents, id)]
             /\ UNCHANGED result
     /\ UNCHANGED <<conn, stores, now, ext, req, rejected, pre>>
  \/ /\ At(c, "deleteDocument", 1)
     /\ IF closed
        THEN Return(c, Failure(InvalidStateError))
             /\ UNCHANGED <<documents, local>>
        ELSE /\ documents' = Remove(documents, id)
             /\ IF LogsDelete(doc)
                THEN Goto(c, 2)
                ELSE Return(c, Success(<<TRUE>>, Affected(doc)))
                     /\ UNCHANGED local
     /\ UNCHANGED <<conn, processedResults, templates, auditLogs,
                    auditKeyGen, now, ext, req, rejected, pre>>
  \/ /\ At(c, "deleteDocument", 2)
     /\ LogAction(AuditEntry("document_delete", "document", id,
                             [name |-> doc[1].name, type |-> doc[1].type]))
     /\ Return(c, Success(<<TRUE>>, Affected(doc)))
     /\ UNCHANGED <<conn, documents, processedResults, templates, now, ext, req,
                    rejected, local, pre>>

\* getAllDocuments(options): retrieval, optional sort, pagination.
getAllDocuments(c) ==
  LET options == req[c].arg
      all == Retrieve(documents, "documents", options.useIndex)
      sorted == IF options.sortBy # ""
                THEN SortBy(all, options.sortBy, options.sortDirection)
                ELSE all
      page == Paginate(sorted, options) IN
  /\ Resumed(c, "getAllDocuments")
  /\ Return(c, IF closed THEN Failure(InvalidStateError)
               ELSE Success(<<page>>, Len(page)))
  /\ UNCHANGED <<conn, stores, now, ext, req, rejected, local, pre>>

\* Variant: the key is ignored, every record of the index is returned.
IndexGetAllKey_all(store, field, key) == IndexGetAll(store, field)

\* index.getAll(key): the records whose index key equals key.
IndexGetAllKey(store, field, key) ==
  SelectSeq(IndexGetAll(store, field), LAMBDA r : r[field] = key)

\* getDocumentsByType(type, options): the byType index, then pagination.
getDocumentsByType(c) ==
  LET page == Paginate(IndexGetAllKey(documents, "type", req[c].arg.type),
                       req[c].arg.options) IN
  /\ Resumed(c, "getDocumentsByType")
  /\ Return(c, IF closed THEN Failure(InvalidStateError)
               ELSE Success(<<page>>, Len(page)))
  /\ UNCHANGED <<conn, stores, now, ext, req, rejected, local, pre>>

\* ----------------------------------------------------- processing results
addProcessingResult(c) ==
  LET res == req[c].arg IN
  \/ /\ Resumed(c, "addProcessingResult")
     /\ IF closed
        THEN Return(c, Failure(InvalidStateError))
             /\ UNCHANGED <<processedResults, local>>
        ELSE IF KeyExists(processedResults, res.id)
        THEN Return(c, Failure(ConstraintError))
             /\ UNCHANGED <<processedResults, local>>
        ELSE processedResults' = Put(processedResults, res.id, res)
             /\ Goto(c, 1)
     /\ UNCHANGED <<conn, documents, templates, auditLogs, auditKeyGen, now, ext,
                    req, rejected, pre>>
  \/ /\ At(c, "addProcessingResult", 1)
     /\ LogAction(AuditEntry("processing_result_add", "processing_result",
                             res.id,
                             [documentId |-> res.documentId,
                              processingType |-> res.processingType,
                              status |-> res.status,
                              confidence |-> res.confidence]))
     /\ Return(c, Success(<<res.id>>, 1))
     /\ UNCHANGED <<conn, documents, processedResults, templates, now, ext, req,
                    rejected, local, pre>>

getProcessingResultsByDocument(c) ==
  LET page == Paginate(IndexGetAllKey(processedResults, "documentId",
                                      req[c].arg.documentId),
                       req[c].arg.options) IN
  /\ Resumed(c, "getProcessingResultsByDocument")
  /\ Return(c, IF closed THEN Failure(InvalidStateError)
               ELSE Success(<<page>>, Len(page)))
  /\ UNCHANGED <<conn, stores, now, ext, req, rejected, local, pre>>

\* ------------------------------------------------------------- templates
addTemplate(c) ==
  LET template == req[c].arg IN
  \/ /\ Resumed(c, "addTemplate")
     /\ IF closed
        THEN Return(c, Failure(InvalidStateError))
             /\ UNCHANGED <<templates, local>>
        ELSE IF KeyExists(templates, template.id)
        THEN Return(c, Failure(ConstraintError))
             /\ UNCHANGED <<templates, local>>
        ELSE templates' = Put(templates, template.id, template)
             /\ Goto(c, 1)
     /\ UNCHANGED <<conn, documents, processedResults, auditLogs,
                    auditKeyGen, now, ext, req, rejected, pre>>
  \/ /\ At(c, "addTemplate", 1)
     /\ LogAction(AuditEntry("template_add", "template", template.id,
                             [name |-> template.name,
                              documentType |-> template.documentType,
                              version |-> template.version]))
     /\ Return(c, Success(<<template.id>>, 1))
     /\ UNCHANGED <<conn, documents, processedResults, templates, now, ext, req,
                    rejected, local, pre>>

\* getActiveTemplates(options): db.getAll, the isActive filter, pagination.
getActiveTemplates(c) ==
  LET active == SelectSeq(GetAll(templates), LAMBDA t : t.isActive = TRUE)
      page == Paginate(active, req[c].arg) IN
  /\ Resumed(c, "getActiveTemplates")
  /\ Return(c, IF closed THEN Failure(InvalidStateError)
               ELSE Success(<<page>>, Len(page)))
  /\ UNCHANGED <<conn, stores, now, ext, req, rejected, local, pre>>

\* getAuditLogs(options): retrieval, the sort by timestamp descending,
\* pagination.
getAuditLogs(c) ==
  LET options == req[c].arg
      all == Retrieve(auditLogs, "auditLogs", options.useIndex)
      page == Paginate(SortBy(all, "timestamp", "desc"), options) IN
  /\ Resumed(c, "getAuditLogs")
  /\ Return(c, IF closed THEN Failure(InvalidStateError)
               ELSE Success(<<page>>, Len(page)))
  /\ UNCHANGED <<conn, stores, now, ext, req, rejected, local, pre>>

\* ------------------------------------------------------------- utilities
\* Variant: the documents are counted, not their sizes summed.
TotalSize_count(docs) == Len(docs)

\* documents.reduce((sum, doc) => sum + doc.size, 0)
RECURSIVE TotalSize(_)
TotalSize(docs) ==
  IF docs = <<>> THEN 0 ELSE docs[1].size + TotalSize(Tail(docs))

\* db.count(storeName)
Count(store) == Cardinality(DOMAIN store)

\* The DatabaseStats record built from the four counts and the documents.
Stats(counts, docs) ==
  [documentCount |-> counts[1], totalSize |-> TotalSize(docs),
   processingResultCount |-> counts[2], templateCount |-> counts[3],
   auditLogCount |-> counts[4], version |-> DB_VERSION, lastUpdated |-> now]

\* getDatabaseStats(): four awaited counts, then an awaited getAll.
getDatabaseStats(c) ==
  LET n == Len(local[c].counts)
      counted == CASE n = 0 -> Count(documents)
                   [] n = 1 -> Count(processedResults)
                   [] n = 2 -> Count(templates)
                   [] OTHER -> Count(auditLogs) IN
  /\ req[c].op = "getDatabaseStats"
  /\ Resumed(c, "getDatabaseStats") \/ pc[c] = "run"
  /\ IF closed
     THEN Return(c, Failure(InvalidStateError)) /\ UNCHANGED local
     ELSE IF n < 4
     THEN /\ pc' = [pc EXCEPT ![c] = "run"]
          /\ local' = [local EXCEPT ![c].counts = Append(@, counted)]
          /\ UNCHANGED result
     ELSE Return(c, Success(<<Stats(local[c].counts, GetAll(documents))>>, 1))
          /\ UNCHANGED local
  /\ UNCHANGED <<conn, stores, now, ext, req, rejected, pre>>

\* Variant: the clearing is logged once the four stores are empty.
clearAllData_logged(c) ==
  LET n == local[c].step IN
  /\ req[c].op = "clearAllData"
  /\ Resumed(c, "clearAllData") \/ pc[c] = "run"
  /\ IF closed
     THEN Return(c, Failure(InvalidStateError))
          /\ UNCHANGED <<documents, processedResults, templates, auditLogs,
                         auditKeyGen, local>>
     ELSE /\ documents' = IF n = 0 THEN Empty ELSE documents
          /\ processedResults' = IF n = 1 THEN Empty ELSE processedResults
          /\ templates' = IF n = 2 THEN Empty ELSE templates
          /\ IF n < 3
             THEN Goto(c, n + 1) /\ UNCHANGED <<auditLogs, auditKeyGen>>
             ELSE /\ auditKeyGen' = auditKeyGen + 1
                  /\ auditLogs' = Put(Empty, auditKeyGen + 1,
                                      [id |-> auditKeyGen + 1]
                                        @@ AuditEntry("data_clear", "session",
                                                      0, <<>>))
                  /\ Return(c, Success(<<TRUE>>, 0)) /\ UNCHANGED local
  /\ UNCHANGED <<conn, now, ext, req, rejected, pre>>

\* clearAllData(): four awaited db.clear calls, one store each.
clearAllData(c) ==
  LET n == local[c].step IN
  /\ req[c].op = "clearAllData"
  /\ Resumed(c, "clearAllData") \/ pc[c] = "run"
  /\ IF closed
     THEN Return(c, Failure(InvalidStateError))
          /\ UNCHANGED <<documents, processedResults, templates, auditLogs,
                         local>>
     ELSE /\ documents' = IF n = 0 THEN Empty ELSE documents
          /\ processedResults' = IF n = 1 THEN Empty ELSE processedResults
          /\ templates' = IF n = 2 THEN Empty ELSE templates
          /\ auditLogs' = IF n = 3 THEN Empty ELSE auditLogs
          /\ IF n < 3
             THEN Goto(c, n + 1)
             ELSE Return(c, Success(<<TRUE>>, 0)) /\ UNCHANGED local
  /\ UNCHANGED <<conn, auditKeyGen, now, ext, req, rejected, pre>>

\* close(): awaits the connection and closes it.
close(c) ==
  /\ Resumed(c, "close")
  /\ closed' = TRUE
  /\ Return(c, Resolved)
  /\ UNCHANGED <<window, dbPromise, openCalls, stores, now, ext, req, rejected,
                 local, pre>>

\* ------------------------------------------------------- specifications
\* The steps of a call in flight.
Run(c) ==
  \/ EnvironmentError(c)
  \/ addDocument(c)
  \/ getDocument(c)
  \/ updateDocument(c)
  \/ deleteDocument(c)
  \/ getAllDocuments(c)
  \/ getDocumentsByType(c)
  \/ addProcessingResult(c)
  \/ getProcessingResultsByDocument(c)
  \/ addTemplate(c)
  \/ getActiveTemplates(c)
  \/ addAuditLog(c)
  \/ getAuditLogs(c)
  \/ getDatabaseStats(c)
  \/ clearAllData(c)
  \/ close(c)

Environment == Tick \/ WindowAppears \/ openDB

\* One caller that awaits every call before it issues the next.
Next == Call(1) \/ Run(1) \/ Finish(1) \/ Environment

Spec == Init /\ [][Next]_vars

\* Two callers, each issuing one call; the two calls interleave at their
\* await points.
NextConcurrent == (\E c \in Callers : Call(c) \/ Run(c)) \/ Environment

SpecConcurrent == Init /\ [][NextConcurrent]_vars

\* A session on a database that earlier sessions have filled: IndexedDB
\* keeps the stores across page loads.  Each stored record was logged when
\* it was added, at a time before this session's clock started.
InheritedAudit(docs, results, tpls) ==
  LET d == GetAll(docs)
      r == GetAll(results)
      t == GetAll(tpls)
      entries ==
        [i \in 1..Len(d) |->
           AuditEntry("document_add", "document", d[i].id,
                      [name |-> d[i].name, type |-> d[i].type,
                       size |-> d[i].size])]
        \o [i \in 1..Len(r) |->
              AuditEntry("processing_result_add", "processing_result",
                         r[i].id,
                         [documentId |-> r[i].documentId,
                          processingType |-> r[i].processingType,
                          status |-> r[i].status,
                          confidence |-> r[i].confidence])]
        \o [i \in 1..Len(t) |->
              AuditEntry("template_add", "template", t[i].id,
                         [name |-> t[i].name,
                          documentType |-> t[i].documentType,
                          version |-> t[i].version])]
  IN [k \in 1..Len(entries) |->
        [id |-> k] @@ [entries[k] EXCEPT !.timestamp = -1]]

InitStored ==
  /\ now = 0
  /\ window = TRUE
  /\ dbPromise = "pending"
  /\ openCalls = 1
  /\ closed = FALSE
  /\ documents \in StoresOf(StoredDocs, 2)
  /\ processedResults \in StoresOf(StoredResults, 2)
  /\ templates \in StoresOf(StoredTemplates, 3)
  /\ auditLogs = InheritedAudit(documents, processedResults, templates)
  /\ auditKeyGen = Cardinality(DOMAIN auditLogs)
  /\ pc = [c \in Callers |-> "idle"]
  /\ req = [c \in Callers |-> NoReq]
  /\ rejected = [c \in Callers |-> FALSE]
  /\ local = [c \in Callers |-> NoLocal]
  /\ result = [c \in Callers |-> NoResult]
  /\ pre = [c \in Callers |-> NoPre]
  /\ ExtOff

\* The listings and the deletion, called on the stored data.
\* Options that name a sort field, as in the documented usage of
\* getProcessingResultsByDocument and getActiveTemplates.
SortedPageOptions ==
  { [useIndex |-> "", sortBy |-> "created", sortDirection |-> "desc",
     offset |-> 0, limit |-> 10],
    [useIndex |-> "", sortBy |-> "name", sortDirection |-> "asc",
     offset |-> 0, limit |-> 50],
    [useIndex |-> "", sortBy |-> "documentType", sortDirection |-> "desc",
     offset |-> 0] }

CallStored(c) ==
  \/ \E o \in SortOptions : Invoke(c, "getAllDocuments", o)
  \/ \E t \in DocTypes, o \in PageOptions :
       Invoke(c, "getDocumentsByType", [type |-> t, options |-> o])
  \/ \E i \in DocIds, o \in PageOptions \cup SortedPageOptions :
       Invoke(c, "getProcessingResultsByDocument",
              [documentId |-> i, options |-> o])
  \/ \E o \in PageOptions \cup SortedPageOptions :
       Invoke(c, "getActiveTemplates", o)
  \/ \E o \in PageOptions : Invoke(c, "getAuditLogs", o)
  \/ \E i \in DocIds : Invoke(c, "deleteDocument", i)

RunStored(c) ==
  \/ getAllDocuments(c)
  \/ getDocumentsByType(c)
  \/ getProcessingResultsByDocument(c)
  \/ getActiveTemplates(c)
  \/ getAuditLogs(c)
  \/ deleteDocument(c)

NextStored == CallStored(1) \/ RunStored(1) \/ Finish(1) \/ Tick \/ openDB

SpecStored == InitStored /\ [][NextStored]_vars

\* This session may still write an audit entry.
\* Two callers on a database that already holds records, each issuing one
\* call without waiting for the other: deletions, additions and statistics.
CallConcurrentStored(c) ==
  \/ \E i \in DocIds : Invoke(c, "deleteDocument", i)
  \/ \E d \in DocInputs : Invoke(c, "addDocument", d)
  \/ Invoke(c, "getDatabaseStats", 0)

RunConcurrentStored(c) ==
  \/ deleteDocument(c)
  \/ addDocument(c)
  \/ getDatabaseStats(c)

NextConcurrentStored ==
  \/ \E c \in Callers : CallConcurrentStored(c) \/ RunConcurrentStored(c)
  \/ Tick
  \/ openDB

SpecConcurrentStored == InitStored /\ [][NextConcurrentStored]_vars

Writable == auditKeyGen + InFlight < Inherited + MaxWrites

\* The mutating operations, and the listing of a document's results,
\* called on the stored data.
CallWrites(c) ==
  \/ Writable /\ \E d \in DocInputs : Invoke(c, "addDocument", d)
  \/ Writable /\ \E d \in DocInputs : Invoke(c, "updateDocument", d)
  \/ Writable /\ \E i \in DocIds : Invoke(c, "deleteDocument", i)
  \/ Writable /\ \E r \in ResultInputs : Invoke(c, "addProcessingResult", r)
  \/ Writable /\ \E t \in TemplateInputs : Invoke(c, "addTemplate", t)
  \/ Writable /\ \E l \in AuditInputs : Invoke(c, "addAuditLog", l)
  \/ \E i \in DocIds :
       Invoke(c, "getProcessingResultsByDocument",
              [documentId |-> i,
               options |-> [useIndex |-> "", sortBy |-> "",
                            sortDirection |-> "asc", offset |-> 0]])

RunWrites(c) ==
  \/ addDocument(c)
  \/ updateDocument(c)
  \/ deleteDocument(c)
  \/ addProcessingResult(c)
  \/ addTemplate(c)
  \/ addAuditLog(c)
  \/ getProcessingResultsByDocument(c)

InitWrites ==
  /\ now = 0
  /\ window = TRUE
  /\ dbPromise = "pending"
  /\ openCalls = 1
  /\ closed = FALSE
  /\ documents \in StoresOf(StoredDocs, 2)
  /\ processedResults \in StoresOf(StoredResults, 2)
  /\ templates \in StoresOf(StoredTemplates, 2)
  /\ auditLogs = InheritedAudit(documents, processedResults, templates)
  /\ auditKeyGen = Cardinality(DOMAIN auditLogs)
  /\ pc = [c \in Callers |-> "idle"]
  /\ req = [c \in Callers |-> NoReq]
  /\ rejected = [c \in Callers |-> FALSE]
  /\ local = [c \in Callers |-> NoLocal]
  /\ result = [c \in Callers |-> NoResult]
  /\ pre = [c \in Callers |-> NoPre]
  /\ ExtOff

NextWrites == CallWrites(1) \/ RunWrites(1) \/ Finish(1) \/ Tick \/ openDB

SpecWrites == InitWrites /\ [][NextWrites]_vars

\* ------------------------------------------------------- SecurityService
\* (src/src/services/security/security.ts)  The service keeps no state; a
\* call is modelled by the value it resolves or rejects with.
SALT_LENGTH == 16
IV_LENGTH == 12
KEY_DERIVATION_ITERATIONS == 100000
KEY_LENGTH == 256
\* Block size in bytes of HMAC-SHA-256, the function PBKDF2 is run with.
HMAC_BLOCK == 64
\* Length in bytes of the authentication tag AES-GCM appends.
GCM_TAG == 16

\* The database takes no step: fresh, as after construction.
DatabaseOff ==
  /\ dbPromise = IF window THEN "pending" ELSE "null"
  /\ openCalls = IF window THEN 1 ELSE 0
  /\ closed = FALSE
  /\ documents = Empty
  /\ processedResults = Empty
  /\ templates = Empty
  /\ auditLogs = Empty
  /\ auditKeyGen = 0
  /\ now = 0
  /\ pc = [c \in Callers |-> "idle"]
  /\ req = [c \in Callers |-> NoReq]
  /\ rejected = [c \in Callers |-> FALSE]
  /\ local = [c \in Callers |-> NoLocal]
  /\ result = [c \in Callers |-> NoResult]
  /\ pre = [c \in Callers |-> NoPre]

database == <<conn, stores, now, pc, req, rejected, local, result, pre>>

\* Passwords, as the sequences of code points of JavaScript strings: "",
\* "p", "p\u0000", "q" and "\u00e9".
Passwords == {<<>>, <<112>>, <<112, 0>>, <<113>>, <<233>>}

\* Plaintexts, as the byte sequences of ArrayBuffers.
Plaintexts == {<<>>, <<7>>, <<7, 0>>}

\* Values crypto.getRandomValues fills an array of n bytes with.
RandomValues(n) ==
  { [i \in 1..n |-> 0], [i \in 1..n |-> (i * 37) % 256] }

\* new TextEncoder().encode(str): UTF-8, for code points below 2048.
RECURSIVE TextEncode(_)
TextEncode(str) ==
  IF str = <<>> THEN <<>>
  ELSE (IF str[1] < 128 THEN <<str[1]>>
        ELSE <<192 + (str[1] \div 64), 128 + (str[1] % 64)>>)
       \o TextEncode(Tail(str))

\* The key HMAC runs with: a key longer than a block is replaced by its
\* digest (named here by the bytes it is the digest of), a shorter one is
\* filled up to the block with zero bytes.
HmacKey(bytes) ==
  IF Len(bytes) > HMAC_BLOCK
  THEN [hashed |-> TRUE, block |-> bytes]
  ELSE [hashed |-> FALSE,
        block |-> [i \in 1..HMAC_BLOCK |->
                     IF i <= Len(bytes) THEN bytes[i] ELSE 0]]

\* _deriveKey(password, salt): importKey of the encoded password, then
\* PBKDF2 with HMAC-SHA-256; the derived key is a function of the HMAC
\* key, the salt, the iteration count and the key length.
DeriveKey(password, salt) ==
  [prf |-> HmacKey(TextEncode(password)), salt |-> salt,
   iterations |-> KEY_DERIVATION_ITERATIONS, length |-> KEY_LENGTH]

\* crypto.subtle.encrypt with AES-GCM: the data sealed under key and iv.
AesGcmEncrypt(key, iv, data) == [key |-> key, iv |-> iv, data |-> data]

\* byteLength of a ciphertext.
ByteLength(ciphertext) == Len(ciphertext.data) + GCM_TAG

\* Variant: the tag is not verified.
AesGcmDecrypt_unauthenticated(key, iv, ciphertext) == <<ciphertext.data>>

\* crypto.subtle.decrypt with AES-GCM: the data when key and iv are the
\* ones it was sealed under, <<>> (an OperationError) otherwise.
AesGcmDecrypt(key, iv, ciphertext) ==
  IF key = ciphertext.key /\ iv = ciphertext.iv
  THEN <<ciphertext.data>> ELSE <<>>

NoWebCrypto == "Web Crypto API is not available in this environment"
EmptyPassword == "Password cannot be empty"
EmptyPlaintext == "Plaintext cannot be empty"
EmptyCiphertext == "Ciphertext cannot be empty"
BadSalt == "Salt must be 16 bytes long"
BadIv == "IV must be 12 bytes long"
InvalidPassword == "Decryption failed: Invalid password or corrupted data"

\* A settled promise: fulfilled with a value or rejected with an error.
Fulfilled(v) == [ok |-> TRUE, value |-> <<v>>, error |-> ""]
Rejected(message) == [ok |-> FALSE, value |-> <<>>, error |-> message]
Pending == [ok |-> FALSE, value |-> <<>>, error |-> "pending"]

\* encrypt(plaintext, password), with the salt and iv it draws.
Encrypted(plaintext, password, salt, iv) ==
  IF ~window THEN Rejected(NoWebCrypto)
  ELSE IF password = <<>> THEN Rejected(EmptyPassword)
  ELSE IF plaintext = <<>> THEN Rejected(EmptyPlaintext)
  ELSE Fulfilled([ciphertext |->
                    AesGcmEncrypt(DeriveKey(password, salt), iv, plaintext),
                  salt |-> salt, iv |-> iv])

\* decrypt(ciphertext, password, salt, iv).
Decrypted(ciphertext, password, salt, iv) ==
  IF ~window THEN Rejected(NoWebCrypto)
  ELSE IF password = <<>> THEN Rejected(EmptyPassword)
  ELSE IF ByteLength(ciphertext) = 0 THEN Rejected(EmptyCiphertext)
  ELSE IF Len(salt) # SALT_LENGTH THEN Rejected(BadSalt)
  ELSE IF Len(iv) # IV_LENGTH THEN Rejected(BadIv)
  ELSE LET plaintext ==
             AesGcmDecrypt(DeriveKey(password, salt), iv, ciphertext)
       IN IF plaintext = <<>> THEN Rejected(InvalidPassword)
          ELSE Fulfilled(plaintext[1])

\* A caller encrypts a plaintext under a password and then decrypts what
\* encrypt returned, under the same or another password.
InitCrypto ==
  /\ window \in BOOLEAN
  /\ DatabaseOff
  /\ cryptoCall \in [phase : {"input"}, plaintext : Plaintexts,
                     password : Passwords, encrypted : {Pending},
                     attempt : {<<>>}, decrypted : {Pending}]
  /\ upload = Off
  /\ ocr = Off
  /\ classificationModal = Off
  /\ ocrModal = Off

encrypt ==
  /\ cryptoCall.phase = "input"
  /\ \E salt \in RandomValues(SALT_LENGTH), iv \in RandomValues(IV_LENGTH) :
       cryptoCall' =
         [cryptoCall EXCEPT
            !.phase = "encrypted",
            !.encrypted = Encrypted(cryptoCall.plaintext,
                                    cryptoCall.password, salt, iv)]
  /\ UNCHANGED <<database, upload, ocr, classificationModal, ocrModal>>

decrypt ==
  /\ cryptoCall.phase = "encrypted"
  /\ cryptoCall.encrypted.ok
  /\ \E password \in Passwords :
       LET payload == cryptoCall.encrypted.value[1] IN
       cryptoCall' =
         [cryptoCall EXCEPT
            !.phase = "decrypted",
            !.attempt = password,
            !.decrypted = Decrypted(payload.ciphertext, password,
                                    payload.salt, payload.iv)]
  /\ UNCHANGED <<database, upload, ocr, classificationModal, ocrModal>>

NextCrypto == encrypt \/ decrypt

SpecCrypto == InitCrypto /\ [][NextCrypto]_vars

\* Base64 text, as the sequence of the alphabet positions 0..63 of its
\* characters; 64 stands for the padding character "=".
\* arrayToBase64: btoa over the bytes, three bytes to four characters.
RECURSIVE ArrayToBase64(_)
ArrayToBase64(bytes) ==
  IF bytes = <<>> THEN <<>>
  ELSE IF Len(bytes) = 1
  THEN <<bytes[1] \div 4, (bytes[1] % 4) * 16, 64, 64>>
  ELSE IF Len(bytes) = 2
  THEN <<bytes[1] \div 4, (bytes[1] % 4) * 16 + bytes[2] \div 16,
         (bytes[2] % 16) * 4, 64>>
  ELSE <<bytes[1] \div 4, (bytes[1] % 4) * 16 + bytes[2] \div 16,
         (bytes[2] % 16) * 4 + bytes[3] \div 64, bytes[3] % 64>>
       \o ArrayToBase64(SubSeq(bytes, 4, Len(bytes)))

\* base64ToArray: atob, four characters to up to three bytes.
RECURSIVE Base64ToArray(_)
Base64ToArray(text) ==
  IF Len(text) < 4 THEN <<>>
  ELSE LET a == text[1]
           b == text[2]
           c == text[3]
           d == text[4]
           first == a * 4 + b \div 16
           second == (b % 16) * 16 + c \div 4
           third == (c % 4) * 64 + d
       IN (IF c = 64 THEN <<first>>
           ELSE IF d = 64 THEN <<first, second>>
           ELSE <<first, second, third>>)
          \o Base64ToArray(SubSeq(text, 5, Len(text)))

\* ----------------------------------------------------------- DocumentsPage
\* (src/src/app/documents/page.tsx)  handleFileUpload, one run.
\* "super-secret-password-for-now"
tempPassword ==
  <<115, 117, 112, 101, 114, 45, 115, 101, 99, 114, 101, 116, 45, 112,
    97, 115, 115, 119, 111, 114, 100, 45, 102, 111, 114, 45, 110, 111,
    119>>

\* The files a user can pick: name (split at its dots), MIME type, content
\* and whether the browser can read it.
Files ==
  { [name |-> <<"scan", "png">>, type |-> "image/jpeg", content |-> <<7>>,
     readable |-> TRUE],
    [name |-> <<"notes">>, type |-> "", content |-> <<7, 0>>,
     readable |-> TRUE],
    [name |-> <<"empty", "pdf">>, type |-> "application/pdf",
     content |-> <<>>, readable |-> TRUE],
    [name |-> <<"gone", "pdf">>, type |-> "application/pdf",
     content |-> <<7>>, readable |-> FALSE] }

\* crypto.subtle.digest("SHA-256", buffer) as hexadecimal text: named by
\* the bytes it is the digest of.
HashHex(bytes) == [sha256 |-> bytes]

\* file.name.split(".").pop()
Extension(name) == name[Len(name)]

\* Variant: the content is stored as read, beside the salt and iv.
NewDocument_plain(id, file, arrayBuffer, encryptedPayload) ==
  [id |-> id, name |-> file.name,
   type |-> IF file.type # "" THEN file.type ELSE "application/octet-stream",
   encryptedData |-> arrayBuffer,
   size |-> Len(file.content), hash |-> HashHex(arrayBuffer),
   created |-> now, modified |-> now,
   metadata |-> [extension |-> Extension(file.name), tags |-> <<>>,
                 customProperties |-> <<>>,
                 crypto |-> [iv |-> ArrayToBase64(encryptedPayload.iv),
                             salt |-> ArrayToBase64(encryptedPayload.salt)]]]

\* The `newDocument` literal.
NewDocument(id, file, arrayBuffer, encryptedPayload) ==
  [id |-> id, name |-> file.name,
   type |-> IF file.type # "" THEN file.type ELSE "application/octet-stream",
   encryptedData |-> encryptedPayload.ciphertext,
   size |-> Len(file.content), hash |-> HashHex(arrayBuffer),
   created |-> now, modified |-> now,
   metadata |-> [extension |-> Extension(file.name), tags |-> <<>>,
                 customProperties |-> <<>>,
                 crypto |-> [iv |-> ArrayToBase64(encryptedPayload.iv),
                             salt |-> ArrayToBase64(encryptedPayload.salt)]]]

DatabaseNotAvailable == "Database not available. Please refresh the page."
FailedToUpload == "Failed to upload document. Please try again."
ErrorUploading == "Error uploading file. Please try again."

\* getAllDocuments() as fetchDocuments calls it: no options.
FetchOptions ==
  [useIndex |-> "", sortBy |-> "", sortDirection |-> "asc", offset |-> 0]

\* The page before a file is picked; dbService is null until the
\* useDatabase hook has delivered the service.
InitUpload ==
  /\ window = TRUE
  /\ DatabaseOff
  /\ cryptoCall = Off
  /\ upload \in [phase : {"idle"}, dbService : BOOLEAN, file : {<<>>},
                 arrayBuffer : {<<>>}, hashHex : {<<>>},
                 encryptedPayload : {Pending}, newDocument : {<<>>},
                 failedAt : {""}, alert : {""}, isUploading : {FALSE},
                 documents : {<<>>}]
  /\ ocr = Off
  /\ classificationModal = Off
  /\ ocrModal = Off

\* catch (error) { alert(...) } finally { setIsUploading(false) }
Caught(at) ==
  upload' = [upload EXCEPT !.phase = "done", !.failedAt = at,
                           !.alert = ErrorUploading, !.isUploading = FALSE]

\* The change event with a file: setIsUploading(true), file.arrayBuffer()
\* is awaited.
handleFileUpload ==
  /\ upload.phase = "idle"
  /\ \E file \in Files :
       upload' = [upload EXCEPT !.phase = "arrayBuffer", !.file = <<file>>,
                                !.isUploading = TRUE]
  /\ UNCHANGED <<database, cryptoCall, ocr, classificationModal, ocrModal>>

\* await file.arrayBuffer() settles.
arrayBuffer ==
  /\ upload.phase = "arrayBuffer"
  /\ IF upload.file[1].readable
     THEN upload' = [upload EXCEPT !.phase = "digest",
                                   !.arrayBuffer = upload.file[1].content]
     ELSE Caught("arrayBuffer")
  /\ UNCHANGED <<database, cryptoCall, ocr, classificationModal, ocrModal>>

\* await crypto.subtle.digest("SHA-256", arrayBuffer) settles; it throws
\* where the page has no crypto.subtle.
digest ==
  /\ upload.phase = "digest"
  /\ \E subtle \in BOOLEAN :
       IF subtle
       THEN upload' = [upload EXCEPT !.phase = "encrypt",
                                     !.hashHex =
                                       <<HashHex(upload.arrayBuffer)>>]
       ELSE Caught("digest")
  /\ UNCHANGED <<database, cryptoCall, ocr, classificationModal, ocrModal>>

\* await securityService.encrypt(arrayBuffer, tempPassword) settles.
encryptUpload ==
  /\ upload.phase = "encrypt"
  /\ \E salt \in RandomValues(SALT_LENGTH), iv \in RandomValues(IV_LENGTH) :
       LET settled == Encrypted(upload.arrayBuffer, tempPassword, salt, iv)
       IN IF settled.ok
          THEN upload' = [upload EXCEPT !.phase = "newDocument",
                                        !.encryptedPayload = settled]
          ELSE Caught("encrypt")
  /\ UNCHANGED <<database, cryptoCall, ocr, classificationModal, ocrModal>>

\* Variant: the document is built from the content as read.
newDocument_plain ==
  /\ upload.phase = "newDocument"
  /\ \E id \in DocIds :
       LET doc == NewDocument_plain(id, upload.file[1], upload.arrayBuffer,
                                    upload.encryptedPayload.value[1])
       IN IF ~upload.dbService
          THEN upload' = [upload EXCEPT !.phase = "done",
                                        !.newDocument = <<doc>>,
                                        !.alert = DatabaseNotAvailable,
                                        !.isUploading = FALSE]
          ELSE upload' = [upload EXCEPT !.phase = "addDocument",
                                        !.newDocument = <<doc>>]
  /\ UNCHANGED <<database, cryptoCall, ocr, classificationModal, ocrModal>>

\* The document is built with a random id; without a database service
\* the handler alerts and returns, otherwise it reaches addDocument.
newDocument ==
  /\ upload.phase = "newDocument"
  /\ \E id \in DocIds :
       LET doc == NewDocument(id, upload.file[1], upload.arrayBuffer,
                              upload.encryptedPayload.value[1])
       IN IF ~upload.dbService
          THEN upload' = [upload EXCEPT !.phase = "done",
                                        !.newDocument = <<doc>>,
                                        !.alert = DatabaseNotAvailable,
                                        !.isUploading = FALSE]
          ELSE upload' = [upload EXCEPT !.phase = "addDocument",
                                        !.newDocument = <<doc>>]
  /\ UNCHANGED <<database, cryptoCall, ocr, classificationModal, ocrModal>>

\* dbService.addDocument(newDocument) is called.
callAddDocument ==
  /\ upload.phase = "addDocument"
  /\ Invoke(1, "addDocument", upload.newDocument[1])

\* await dbService.addDocument(...) settles: on success the list is
\* fetched again, otherwise the user is alerted.
addDocumentSettled ==
  /\ upload.phase = "addDocument"
  /\ pc[1] = "done"
  /\ upload' = IF result[1].success
               THEN [upload EXCEPT !.phase = "fetchDocuments"]
               ELSE [upload EXCEPT !.phase = "finally",
                                   !.alert = FailedToUpload]
  /\ UNCHANGED <<database, cryptoCall, ocr, classificationModal, ocrModal>>

\* fetchDocuments: dbService.getAllDocuments() is called.
fetchDocuments ==
  /\ upload.phase = "fetchDocuments"
  /\ Invoke(1, "getAllDocuments", FetchOptions)

\* await dbService.getAllDocuments() settles: setDocuments on success.
fetchDocumentsSettled ==
  /\ upload.phase = "fetchDocuments"
  /\ pc[1] = "done"
  /\ req[1].op = "getAllDocuments"
  /\ upload' = [upload EXCEPT
                  !.phase = "finally",
                  !.documents = IF result[1].success /\ result[1].data # <<>>
                                THEN result[1].data[1]
                                ELSE upload.documents]
  /\ UNCHANGED <<database, cryptoCall, ocr, classificationModal, ocrModal>>

\* The page has taken the settled value of its database call.
UploadTaken ==
  \/ upload.phase = "fetchDocuments" /\ req[1].op = "addDocument"
  \/ upload.phase = "finally"

\* finally { setIsUploading(false) }
finallyUpload ==
  /\ upload.phase = "finally"
  /\ pc[1] = "idle"
  /\ upload' = [upload EXCEPT !.phase = "done", !.isUploading = FALSE]
  /\ UNCHANGED <<database, cryptoCall, ocr, classificationModal, ocrModal>>

NextUpload ==
  \/ handleFileUpload
  \/ arrayBuffer
  \/ digest
  \/ encryptUpload
  \/ newDocument
  \/ callAddDocument
  \/ addDocument(1)
  \/ addDocumentSettled
  \/ fetchDocuments
  \/ getAllDocuments(1)
  \/ fetchDocumentsSettled
  \/ (UploadTaken /\ Finish(1))
  \/ finallyUpload
  \/ openDB
  \/ Tick

SpecUpload == InitUpload /\ [][NextUpload]_vars

\* -------------------------------------------------------------- OCRService
\* (src/unnamed/part_000)  The singleton of a browser page.  Progress is
\* counted in tenths of a percent.
PROGRESS_CAP == 90
PROGRESS_COMPLETE == 100
Tenths(percent) == percent * 10

\* Math.random() * 15: 0, 7.4 and 14.9.
Increments == {0, 74, 149}

\* Math.round of a number of tenths.
Round(tenths) == (tenths + 5) \div 10

\* After `new OCRService()` in a browser: the constructor has started
\* initializeWorker, createWorker is in flight.
InitOcr ==
  /\ window = TRUE
  /\ DatabaseOff
  /\ cryptoCall = Off
  /\ upload = Off
  /\ ocr = [phase |-> "on", worker |-> FALSE, isInitializing |-> TRUE,
            initializationPromise |-> "pending",
            recognize |-> "idle", onProgress |-> FALSE,
            progressInterval |-> FALSE, currentProgress |-> 0,
            reported |-> <<>>,
            terminate |-> "idle", waited |-> FALSE, quiet |-> FALSE]
  /\ classificationModal = Off
  /\ ocrModal = Off

isReady == ocr.worker /\ ~ocr.isInitializing

\* initializeWorker(): nothing new when a worker exists or is being
\* created, otherwise performInitialization starts.
initializeWorker(o) ==
  IF o.worker \/ o.isInitializing THEN o
  ELSE [o EXCEPT !.isInitializing = TRUE,
                 !.initializationPromise = "pending"]

\* setInterval(...) when a callback was given; worker.recognize starts.
StartRecognition(o) ==
  [o EXCEPT !.recognize = "recognizing",
            !.progressInterval = o.onProgress,
            !.currentProgress = 0]

\* Tesseract.createWorker settles: performInitialization stores the
\* worker or throws, initializeWorker clears isInitializing, and a
\* recognize call waiting in ensureWorkerReady goes on or rejects.
performInitialization ==
  /\ ocr.initializationPromise = "pending"
  /\ \E created \in BOOLEAN :
       LET settled ==
             [ocr EXCEPT !.worker = created,
                         !.isInitializing = FALSE,
                         !.initializationPromise =
                            IF created THEN "fulfilled" ELSE "rejected"]
       IN ocr' = IF ocr.recognize # "ensureWorkerReady" THEN settled
                 ELSE IF created THEN StartRecognition(settled)
                 ELSE [settled EXCEPT !.recognize = "rejected"]
  /\ UNCHANGED <<database, cryptoCall, upload, classificationModal,
                 ocrModal>>

\* recognize(image, onProgress?) is called: ensureWorkerReady.
recognize ==
  /\ ocr.recognize = "idle"
  /\ \E onProgress \in BOOLEAN :
       LET called == [ocr EXCEPT !.onProgress = onProgress,
                                 !.quiet = FALSE]
       IN ocr' = IF ocr.worker THEN StartRecognition(called)
                 ELSE [initializeWorker(called) EXCEPT
                         !.recognize = "ensureWorkerReady"]
  /\ UNCHANGED <<database, cryptoCall, upload, classificationModal,
                 ocrModal>>

\* Variant: the counter is not capped.
progressTick_uncapped ==
  /\ ocr.recognize = "recognizing"
  /\ ocr.progressInterval
  /\ Len(ocr.reported) < MaxReports
  /\ \E increment \in Increments :
       LET raised == ocr.currentProgress + increment
       IN ocr' = [ocr EXCEPT
                    !.currentProgress = raised,
                    !.reported = Append(ocr.reported, Round(raised))]
  /\ UNCHANGED <<database, cryptoCall, upload, classificationModal,
                 ocrModal>>

\* The interval callback, every 200 ms while recognition runs.
progressTick ==
  /\ ocr.recognize = "recognizing"
  /\ ocr.progressInterval
  /\ Len(ocr.reported) < MaxReports
  /\ \E increment \in Increments :
       LET raised == ocr.currentProgress + increment
           capped == IF raised > Tenths(PROGRESS_CAP)
                     THEN Tenths(PROGRESS_CAP) ELSE raised
       IN ocr' = [ocr EXCEPT
                    !.currentProgress = capped,
                    !.reported = Append(ocr.reported, Round(capped))]
  /\ UNCHANGED <<database, cryptoCall, upload, classificationModal,
                 ocrModal>>

\* worker.recognize(image) settles: the interval is cleared; on success
\* 100 is reported and the call resolves, otherwise it rejects.
workerRecognize ==
  /\ ocr.recognize = "recognizing"
  /\ \E recognized \in BOOLEAN :
       ocr' = [ocr EXCEPT
                 !.progressInterval = FALSE,
                 !.reported =
                    IF recognized /\ ocr.progressInterval
                    THEN Append(ocr.reported, PROGRESS_COMPLETE)
                    ELSE ocr.reported,
                 !.recognize =
                    IF recognized THEN "resolved" ELSE "rejected"]
  /\ UNCHANGED <<database, cryptoCall, upload, classificationModal,
                 ocrModal>>

\* waitForReady() is called.
waitForReady ==
  /\ ~ocr.waited
  /\ ocr' = [(IF isReady THEN ocr ELSE initializeWorker(ocr)) EXCEPT
               !.waited = TRUE, !.quiet = FALSE]
  /\ UNCHANGED <<database, cryptoCall, upload, classificationModal,
                 ocrModal>>

\* terminate() is called: without a worker it resolves at once,
\* otherwise worker.terminate() is awaited.
terminate ==
  /\ ocr.terminate = "idle"
  /\ ocr' = IF ocr.worker
            THEN [ocr EXCEPT !.terminate = "terminating"]
            ELSE [ocr EXCEPT !.terminate = "resolved", !.quiet = TRUE]
  /\ UNCHANGED <<database, cryptoCall, upload, classificationModal,
                 ocrModal>>

\* worker.terminate() settles: the worker is dropped either way.
workerTerminate ==
  /\ ocr.terminate = "terminating"
  /\ ocr' = [ocr EXCEPT !.worker = FALSE, !.terminate = "resolved",
                        !.quiet = TRUE]
  /\ UNCHANGED <<database, cryptoCall, upload, classificationModal,
                 ocrModal>>

NextOcr ==
  \/ performInitialization
  \/ recognize
  \/ progressTick
  \/ workerRecognize
  \/ waitForReady
  \/ terminate
  \/ workerTerminate

SpecOcr == InitOcr /\ [][NextOcr]_vars

\* ------------------------------------------------------------------ modals
\* The documents a modal is opened for, by id; 0 stands for null.
ModalDocuments == {1, 2}

DocumentType(id) == IF id = 1 THEN "image/jpeg" ELSE "application/pdf"

\* Math.random() * 15 in a modal's interval: 14.9.
ModalIncrements == {149}

\* s without its i-th element.
RemoveAt(s, i) == SubSeq(s, 1, i - 1) \o SubSeq(s, i + 1, Len(s))

\* ---------------------------------------------------- ClassificationModal
\* (src/src/components/documents/ClassificationModal.tsx)  The mounted
\* component, closed; `runs` are the startClassification calls that have
\* not yet returned.
InitClassificationModal ==
  /\ window = TRUE
  /\ DatabaseOff
  /\ cryptoCall = Off
  /\ upload = Off
  /\ ocr = Off
  /\ classificationModal =
       [phase |-> "on", isOpen |-> FALSE, document |-> 0, state |-> "idle",
        result |-> 0, error |-> FALSE, progress |-> 0,
        classificationRef |-> FALSE, runs |-> <<>>, opens |-> 0]
  /\ ocrModal = Off

\* startClassification() up to its first await.
startClassification(m) ==
  IF m.classificationRef THEN m
  ELSE [m EXCEPT !.classificationRef = TRUE, !.state = "classifying",
                 !.result = 0, !.error = FALSE, !.progress = 0,
                 !.runs = Append(m.runs, [document |-> m.document,
                                          stage |-> "classify",
                                          currentProgress |-> 0])]

\* The effect that starts classification, after a render.
StartEffect(m) ==
  IF m.isOpen /\ ~m.classificationRef /\ m.state = "idle"
  THEN startClassification(m) ELSE m

\* The effect that resets the state when the modal closes.
ResetEffect(m) ==
  IF ~m.isOpen
  THEN [m EXCEPT !.state = "idle", !.result = 0, !.error = FALSE,
                 !.progress = 0, !.classificationRef = FALSE]
  ELSE m

\* The parent opens the modal for a document.
openClassification ==
  /\ ~classificationModal.isOpen
  /\ classificationModal.opens < MaxOpens
  /\ \E d \in ModalDocuments :
       classificationModal' =
         StartEffect([classificationModal EXCEPT
                        !.isOpen = TRUE, !.document = d,
                        !.opens = @ + 1])
  /\ UNCHANGED <<database, cryptoCall, upload, ocr, ocrModal>>

\* handleClose, and the parent's onClose closing the modal.
handleClose ==
  /\ classificationModal.isOpen
  /\ classificationModal' =
       StartEffect(ResetEffect(
         [classificationModal EXCEPT
            !.state = "idle", !.result = 0, !.error = FALSE,
            !.progress = 0, !.classificationRef = FALSE,
            !.isOpen = FALSE]))
  /\ UNCHANGED <<database, cryptoCall, upload, ocr, ocrModal>>

\* The Retry button, shown in state "error".
retryClassification ==
  /\ classificationModal.isOpen
  /\ classificationModal.state = "error"
  /\ ~classificationModal.classificationRef
  /\ classificationModal' = startClassification(classificationModal)
  /\ UNCHANGED <<database, cryptoCall, upload, ocr, ocrModal>>

\* The interval callback of a run, every 150 ms until classify settles.
classificationProgress ==
  /\ \E i \in 1..Len(classificationModal.runs) :
       LET run == classificationModal.runs[i] IN
       /\ run.stage = "classify"
       /\ run.currentProgress < Tenths(PROGRESS_CAP)
       /\ \E increment \in ModalIncrements :
            LET raised == run.currentProgress + increment
                capped == IF raised > Tenths(PROGRESS_CAP)
                          THEN Tenths(PROGRESS_CAP) ELSE raised
            IN classificationModal' =
                 [classificationModal EXCEPT
                    !.progress = Round(capped),
                    !.runs[i].currentProgress = capped]
  /\ UNCHANGED <<database, cryptoCall, upload, ocr, ocrModal>>

\* The delay, the PDF rendering and classificationService.classify of a
\* run settle: the interval is cleared; on success the closing animation
\* starts, on failure the catch and finally blocks run.
classify ==
  /\ \E i \in 1..Len(classificationModal.runs), classified \in BOOLEAN :
       /\ classificationModal.runs[i].stage = "classify"
       /\ classificationModal' =
            IF classified
            THEN [classificationModal EXCEPT !.runs[i].stage = "animate"]
            ELSE StartEffect(
                   [classificationModal EXCEPT
                      !.error = TRUE, !.state = "error",
                      !.classificationRef = FALSE,
                      !.runs = RemoveAt(@, i)])
  /\ UNCHANGED <<database, cryptoCall, upload, ocr, ocrModal>>

\* The closing animation of a run, taken as one step: setProgress(100).
animateToComplete ==
  /\ \E i \in 1..Len(classificationModal.runs) :
       /\ classificationModal.runs[i].stage = "animate"
       /\ classificationModal' =
            [classificationModal EXCEPT !.progress = PROGRESS_COMPLETE,
                                        !.runs[i].stage = "pause"]
  /\ UNCHANGED <<database, cryptoCall, upload, ocr, ocrModal>>

\* After the pause: setResult, setState("success") and the finally block.
classified ==
  /\ \E i \in 1..Len(classificationModal.runs) :
       /\ classificationModal.runs[i].stage = "pause"
       /\ classificationModal' =
            StartEffect(
              [classificationModal EXCEPT
                 !.result = classificationModal.runs[i].document,
                 !.state = "success",
                 !.classificationRef = FALSE,
                 !.runs = RemoveAt(@, i)])
  /\ UNCHANGED <<database, cryptoCall, upload, ocr, ocrModal>>

NextClassificationModal ==
  \/ openClassification
  \/ handleClose
  \/ retryClassification
  \/ classificationProgress
  \/ classify
  \/ animateToComplete
  \/ classified

SpecClassificationModal ==
  InitClassificationModal /\ [][NextClassificationModal]_vars

\* ----------------------------------------------------- OCRProcessingModal
\* (src/src/components/documents/OCRProcessingModal.tsx, mounted by
\* DocumentsTable)  `runs` are the ocrService.recognize calls that have
\* not yet settled, each with the last value it reported.
InitOcrModal ==
  /\ window = TRUE
  /\ DatabaseOff
  /\ cryptoCall = Off
  /\ upload = Off
  /\ ocr = Off
  /\ classificationModal = Off
  /\ ocrModal =
       [phase |-> "on", isOpen |-> FALSE, document |-> 0, progress |-> 0,
        isProcessing |-> FALSE, result |-> 0, error |-> FALSE,
        runs |-> <<>>, opens |-> 0]

\* The percentages a recognize call reports before it completes.
ProgressSamples == {15, 45, 90}

\* startOCRProcessing() up to its first await: a document that is not an
\* image fails at once.
startOCRProcessing(m) ==
  IF m.document = 0 THEN m
  ELSE IF DocumentType(m.document) \notin {"image/jpeg", "image/png"}
  THEN [m EXCEPT !.progress = 0, !.error = TRUE, !.isProcessing = FALSE]
  ELSE [m EXCEPT !.isProcessing = TRUE, !.progress = 0, !.error = FALSE,
                 !.runs = Append(m.runs, [document |-> m.document,
                                          reported |-> 0])]

\* The effect that starts processing, after a render.
StartOcrEffect(m) ==
  IF /\ m.isOpen /\ m.document # 0
     /\ ~m.isProcessing /\ m.result = 0 /\ ~m.error
  THEN startOCRProcessing(m) ELSE m

\* The effect that resets the state when the modal closes or has no
\* document.
ResetOcrEffect(m) ==
  IF ~m.isOpen \/ m.document = 0
  THEN [m EXCEPT !.progress = 0, !.isProcessing = FALSE, !.result = 0,
                 !.error = FALSE]
  ELSE m

\* handleOCRProcess of the table: the modal is opened for a document.
openOcr ==
  /\ ~ocrModal.isOpen
  /\ ocrModal.opens < MaxOpens
  /\ \E d \in ModalDocuments :
       ocrModal' =
         StartOcrEffect(ResetOcrEffect(
           [ocrModal EXCEPT !.isOpen = TRUE, !.document = d,
                            !.opens = @ + 1]))
  /\ UNCHANGED <<database, cryptoCall, upload, ocr, classificationModal>>

\* handleOCRModalClose of the table.
handleOCRModalClose ==
  /\ ocrModal.isOpen
  /\ ocrModal' =
       StartOcrEffect(ResetOcrEffect(
         [ocrModal EXCEPT !.isOpen = FALSE, !.document = 0]))
  /\ UNCHANGED <<database, cryptoCall, upload, ocr, classificationModal>>

\* The Try Again button, shown with an error and enabled when idle.
retryOcr ==
  /\ ocrModal.isOpen
  /\ ocrModal.error
  /\ ~ocrModal.isProcessing
  /\ ocrModal' = startOCRProcessing(ocrModal)
  /\ UNCHANGED <<database, cryptoCall, upload, ocr, classificationModal>>

\* The progress callback of a run: setProgress(progressValue).
ocrProgress ==
  /\ \E i \in 1..Len(ocrModal.runs) :
       \E value \in ProgressSamples :
         /\ value > ocrModal.runs[i].reported
         /\ ocrModal' = [ocrModal EXCEPT !.progress = value,
                                         !.runs[i].reported = value]
  /\ UNCHANGED <<database, cryptoCall, upload, ocr, classificationModal>>

\* ocrService.recognize of a run settles: on success 100 is reported and
\* the result is set, on failure the error; isProcessing is cleared.
recognized ==
  /\ \E i \in 1..Len(ocrModal.runs), succeeded \in BOOLEAN :
       ocrModal' =
         StartOcrEffect(
           IF succeeded
           THEN [ocrModal EXCEPT !.progress = PROGRESS_COMPLETE,
                                 !.result = ocrModal.runs[i].document,
                                 !.isProcessing = FALSE,
                                 !.runs = RemoveAt(@, i)]
           ELSE [ocrModal EXCEPT !.error = TRUE,
                                 !.isProcessing = FALSE,
                                 !.runs = RemoveAt(@, i)])
  /\ UNCHANGED <<database, cryptoCall, upload, ocr, classificationModal>>

NextOcrModal ==
  \/ openOcr
  \/ handleOCRModalClose
  \/ retryOcr
  \/ ocrProgress
  \/ recognized

SpecOcrModal == InitOcrModal /\ [][NextOcrModal]_vars

\* ------------------------------------------------------------ properties
Done(c, op) == pc[c] = "done" /\ req[c].op = op

\* The call of caller c was issued on an open connection in a context
\* with a window.
OnOpenConnection(c) == ~rejected[c] /\ ~pre[c].closed

FailedEnvelope(r) ==
  /\ r.kind = "envelope"
  /\ ~r.success
  /\ Len(r.error) = 1
  /\ r.recordsAffected = 0

StoresAsAtCall(c) ==
  /\ documents = pre[c].documents
  /\ processedResults = pre[c].processedResults
  /\ templates = pre[c].templates
  /\ auditLogs = pre[c].auditLogs

\* The audit entries appended since caller c issued its call.
NewEntries(c) == (DOMAIN auditLogs) \ (DOMAIN pre[c].auditLogs)

\* C1: addDocument(D) with D.id already stored returns a failed envelope
\* (success=false, an error message, recordsAffected=0) and leaves every
\* collection as it was: the stored record is the first one, and no audit
\* entry is appended.
C1_DuplicateAddFails ==
  \A c \in Callers :
    (Done(c, "addDocument") /\ req[c].arg.id \in DOMAIN pre[c].documents)
      => /\ FailedEnvelope(result[c])
         /\ Len(result[c].data) = 0
         /\ StoresAsAtCall(c)

C1_Witness ==
  /\ Done(1, "addDocument")
  /\ req[1].arg.id \in DOMAIN pre[1].documents
  /\ documents[req[1].arg.id] # req[1].arg
  /\ result[1].error = <<ConstraintError>>

WritingOps ==
  {"addDocument", "updateDocument", "deleteDocument", "addProcessingResult",
   "addTemplate"}

\* The identifier of the record a writing call acts upon.
ActedUpon(c) ==
  IF req[c].op = "deleteDocument" THEN req[c].arg ELSE req[c].arg.id

ExactlyOneEntryFor(c) ==
  /\ Cardinality(NewEntries(c)) = 1
  /\ \A k \in NewEntries(c) : auditLogs[k].resourceId = ActedUpon(c)

NoClear == \A c \in Callers : req[c].op # "clearAllData"

\* C3: the audit log is append-only: in every step of a behaviour outside
\* clearAllData each stored audit entry stays stored with the same content,
\* so the number of entries never decreases.
C3_AuditAppendOnly ==
  [][NoClear =>
       /\ \A k \in DOMAIN auditLogs :
            k \in DOMAIN auditLogs' /\ auditLogs'[k] = auditLogs[k]
       /\ Cardinality(DOMAIN auditLogs') >= Cardinality(DOMAIN auditLogs)]_vars

C3_Witness ==
  /\ Done(1, "updateDocument")
  /\ result[1].success
  /\ Cardinality(DOMAIN auditLogs) = 2
  /\ Cardinality(DOMAIN pre[1].auditLogs) = 1

\* C4: for a document D whose id is not stored, addDocument(D) succeeds and
\* stores D unchanged, and a getDocument(D.id) issued right after it returns
\* success=true with a record equal to D in every field.
C4_AddThenGet ==
  \A c \in Callers :
    /\ (Done(c, "addDocument") /\ OnOpenConnection(c)
          /\ req[c].arg.id \notin DOMAIN pre[c].documents)
         => /\ result[c].success
            /\ result[c].data = <<req[c].arg.id>>
            /\ documents[req[c].arg.id] = req[c].arg
    /\ (Done(c, "getDocument") /\ pre[c].last.op = "addDocument"
          /\ pre[c].last.arg.id = req[c].arg)
         => /\ result[c].success
            /\ result[c].data = <<pre[c].last.arg>>
            /\ result[c].recordsAffected = 1

C4_Witness ==
  /\ Done(1, "getDocument")
  /\ pre[1].last.op = "addDocument"
  /\ pre[1].last.arg.id = req[1].arg
  /\ result[1].data = <<pre[1].last.arg>>
  /\ pre[1].last.arg.modified # now

\* C5 as claimed: after a successful updateDocument the stored modified is
\* strictly greater than the modified stored for that id before the call.
C5_Claimed ==
  \A c \in Callers :
    (Done(c, "updateDocument") /\ result[c].success
       /\ req[c].arg.id \in DOMAIN pre[c].documents)
      => documents[req[c].arg.id].modified
           > pre[c].documents[req[c].arg.id].modified

\* C5 as amended: the record updateDocument writes carries the clock time
\* read by the call as modified, whatever modified the caller passed and
\* with every other field as passed; that time is greater than the value
\* stored before only if the clock has advanced past it.
C5_ModifiedIsCallTime ==
  [][\A c \in Callers :
       (Resumed(c, "updateDocument") /\ pc'[c] = "run")
         => /\ documents'[req[c].arg.id].modified = now
            /\ documents'[req[c].arg.id] = [req[c].arg EXCEPT !.modified = now]
    ]_vars

C5_Witness ==
  /\ Done(1, "updateDocument")
  /\ result[1].success
  /\ req[1].arg.id \in DOMAIN pre[1].documents
  /\ req[1].arg.modified # documents[req[1].arg.id].modified
  /\ documents[req[1].arg.id].modified
       <= pre[1].documents[req[1].arg.id].modified

\* C6: getDocument(id) and deleteDocument(id) for an id that is not stored
\* return success=true with recordsAffected=0 (getDocument with no data),
\* change no collection and append no audit entry.
C6_AbsenceIsNotAnError ==
  \A c \in Callers :
    (pc[c] = "done" /\ req[c].op \in {"getDocument", "deleteDocument"}
       /\ OnOpenConnection(c) /\ req[c].arg \notin DOMAIN pre[c].documents)
      => /\ result[c].kind = "envelope"
         /\ result[c].success
         /\ Len(result[c].error) = 0
         /\ result[c].recordsAffected = 0
         /\ req[c].op = "getDocument" => Len(result[c].data) = 0
         /\ StoresAsAtCall(c)

C6_Witness ==
  /\ Done(1, "deleteDocument")
  /\ req[1].arg \notin DOMAIN pre[1].documents
  /\ result[1].success
  /\ DOMAIN documents # {}
  /\ DOMAIN auditLogs # {}

\* C7: every envelope a public operation returns is well formed: with
\* success=true no error is present; with success=false no data is present,
\* an error message is present and recordsAffected is 0.
C7_EnvelopeWellFormed ==
  \A c \in Callers :
    (pc[c] = "done" /\ result[c].kind = "envelope")
      => /\ result[c].success => Len(result[c].error) = 0
         /\ ~result[c].success
              => /\ Len(result[c].data) = 0
                 /\ Len(result[c].error) = 1
                 /\ result[c].recordsAffected = 0

C7_Witness ==
  /\ Done(1, "addTemplate")
  /\ ~result[1].success
  /\ result[1].error = <<ConstraintError>>
  /\ Len(result[1].data) = 0
  /\ DOMAIN templates # {}

\* C8: once close() has completed, every operation issued later on the
\* instance returns a failed envelope (success=false, an error,
\* recordsAffected=0) and does not throw, no collection changes, and the
\* instance starts no second open: the connection stays closed.
C8_ClosedStaysClosed ==
  /\ closed => (openCalls = 1 /\ dbPromise = "fulfilled")
  /\ \A c \in Callers :
       (pc[c] = "done" /\ pre[c].closed /\ req[c].op # "close")
         => /\ FailedEnvelope(result[c])
            /\ Len(result[c].data) = 0
            /\ StoresAsAtCall(c)
            /\ closed
            /\ openCalls = pre[c].openCalls

C8_Witness ==
  /\ Done(1, "clearAllData")
  /\ pre[1].closed
  /\ result[1].error = <<InvalidStateError>>
  /\ DOMAIN documents # {}
  /\ DOMAIN auditLogs # {}

\* C9 as claimed: an operation invoked where no window exists throws the
\* environment error instead of returning a failed envelope, and starts no
\* open of the store.
C9_Claimed ==
  \A c \in Callers :
    (pc[c] = "done" /\ ~pre[c].window)
      => /\ result[c].kind = "thrown"
         /\ openCalls = pre[c].openCalls

\* C9 as amended: an operation invoked where no window exists returns the
\* environment error as a failed envelope (success=false, the message
\* "DatabaseService can only be used on the client side", recordsAffected=0);
\* only close(), which has no catch block, throws it.  No open of the store
\* is started and no collection changes.
C9_EnvironmentErrorIsEnveloped ==
  \A c \in Callers :
    (pc[c] = "done" /\ ~pre[c].window)
      => /\ IF req[c].op = "close"
            THEN result[c].kind = "thrown"
            ELSE FailedEnvelope(result[c]) /\ Len(result[c].data) = 0
         /\ result[c].error = <<ClientSideOnly>>
         /\ openCalls = pre[c].openCalls
         /\ StoresAsAtCall(c)

C9_Witness ==
  /\ Done(1, "addDocument")
  /\ ~pre[1].window
  /\ result[1].kind = "envelope"
  /\ result[1].error = <<ClientSideOnly>>
  /\ openCalls = 0

\* C10: initialisation is single-flight: under every interleaving of the
\* callers' first operations the instance starts at most one open, and every
\* call waiting for the connection waits for that one open.
C10_SingleFlight ==
  /\ openCalls <= 1
  /\ \A c \in Callers :
       (pc[c] \in {"await", "run"} /\ ~rejected[c])
         => (openCalls = 1 /\ dbPromise \in {"pending", "fulfilled"})

C10_Witness ==
  /\ pc[1] = "await" /\ ~rejected[1]
  /\ pc[2] = "await" /\ ~rejected[2]
  /\ dbPromise = "pending"
  /\ pre[1].openCalls = 0
  /\ pre[2].openCalls = 1

\* C11: when two addDocument calls with the same identifier run
\* concurrently, in every interleaving exactly one returns success=true and
\* the other a failed envelope; afterwards the winner's record is the one
\* stored under that id and exactly one document_add audit entry exists
\* for it.
C11_OneConcurrentAddWins ==
  (/\ Done(1, "addDocument") /\ Done(2, "addDocument")
   /\ req[1].arg.id = req[2].arg.id
   /\ ~rejected[1] /\ ~rejected[2])
    => \E w \in Callers :
         LET l == CHOOSE c \in Callers : c # w IN
         /\ result[w].success
         /\ result[w].data = <<req[w].arg.id>>
         /\ FailedEnvelope(result[l])
         /\ DOMAIN documents = {req[w].arg.id}
         /\ documents[req[w].arg.id] = req[w].arg
         /\ Cardinality({k \in DOMAIN auditLogs :
                           /\ auditLogs[k].action = "document_add"
                           /\ auditLogs[k].resourceId = req[w].arg.id}) = 1

C11_Witness ==
  /\ Done(1, "addDocument") /\ Done(2, "addDocument")
  /\ req[1].arg.id = req[2].arg.id
  /\ req[1].arg # req[2].arg
  /\ result[2].success
  /\ result[1].error = <<ConstraintError>>
  /\ documents[req[2].arg.id] = req[2].arg

\* The call of caller c carries no query options.
NoOptions(o) ==
  o.useIndex = "" /\ o.sortBy = "" /\ o.offset = 0 /\ "limit" \notin DOMAIN o

\* Every stored audit entry was written by the service itself, so that the
\* entries' keys count the actions in the order they were performed.
OnlyServiceEntries ==
  \A k \in DOMAIN auditLogs : auditLogs[k].userHash = "system"

\* C12: getAuditLogs() with no options returns all audit entries ordered
\* by timestamp descending with the entry of the most recently performed
\* action first, also when consecutive actions received equal timestamps.
C12_NewestActionFirst ==
  (/\ Done(1, "getAuditLogs") /\ OnOpenConnection(1)
   /\ NoOptions(req[1].arg)
   /\ OnlyServiceEntries)
    => /\ result[1].success
       /\ LET list == result[1].data[1] IN
          /\ Len(list) = Cardinality(DOMAIN auditLogs)
          /\ \A i \in 1..Len(list) : list[i] = auditLogs[list[i].id]
          /\ \A i, j \in 1..Len(list) :
               i < j => /\ list[i].timestamp >= list[j].timestamp
                        /\ list[i].id > list[j].id

\* The list lists every record of the store, each once and as stored.
PermutationOf(list, store) ==
  /\ Len(list) = Cardinality(DOMAIN store)
  /\ \A i \in 1..Len(list) :
       list[i].id \in DOMAIN store /\ list[i] = store[list[i].id]
  /\ \A i, j \in 1..Len(list) : i # j => list[i].id # list[j].id

\* The position of the record with the given id in a list.
PositionOf(list, id) == CHOOSE i \in 1..Len(list) : list[i].id = id

\* No offset and no limit.
Unpaginated(o) == o.offset = 0 /\ "limit" \notin DOMAIN o

\* C13: getAllDocuments with sortBy=f returns a permutation of the stored
\* documents ordered by field f, non-decreasing for sortDirection 'asc' (or
\* omitted) and non-increasing for 'desc', with documents of equal f kept
\* in their retrieval order (stable).
C13_SortedStablePermutation ==
  (/\ Done(1, "getAllDocuments") /\ OnOpenConnection(1)
   /\ req[1].arg.sortBy # ""
   /\ Unpaginated(req[1].arg))
    => /\ result[1].success
       /\ LET o == req[1].arg
              f == o.sortBy
              list == result[1].data[1]
              retrieved == Retrieve(documents, "documents", o.useIndex)
          IN /\ PermutationOf(list, documents)
             /\ result[1].recordsAffected = Len(list)
             /\ \A i, j \in 1..Len(list) :
                  i < j =>
                    LET a == FieldKey(list[i], f)[1]
                        b == FieldKey(list[j], f)[1]
                    IN /\ IF o.sortDirection = "desc" THEN a >= b ELSE a <= b
                       /\ a = b => PositionOf(retrieved, list[i].id)
                                     < PositionOf(retrieved, list[j].id)

\* Three documents, two of equal size, are returned largest first and the
\* equal ones in key order.
C13_Witness ==
  /\ Done(1, "getAllDocuments") /\ OnOpenConnection(1)
  /\ req[1].arg.sortBy = "size" /\ req[1].arg.sortDirection = "desc"
  /\ req[1].arg.useIndex = "" /\ Unpaginated(req[1].arg)
  /\ result[1].success
  /\ Len(result[1].data[1]) = 3
  /\ result[1].data[1][1].id = 2 /\ result[1].data[1][1].size = 300
  /\ result[1].data[1][2].id = 1 /\ result[1].data[1][2].size = 200
  /\ result[1].data[1][3].id = 3 /\ result[1].data[1][3].size = 200

\* The full list a getAllDocuments call with options o sorts: every stored
\* document, retrieved and ordered as o asks, before any slicing.
FullList(o) ==
  LET retrieved == Retrieve(documents, "documents", o.useIndex)
  IN IF o.sortBy # "" THEN SortBy(retrieved, o.sortBy, o.sortDirection)
     ELSE retrieved

\* Positions first..last of a list, as far as the list reaches.
Positions(list, first, last) ==
  [i \in 1..(IF last < Len(list) THEN last - first + 1
             ELSE IF first > Len(list) THEN 0 ELSE Len(list) - first + 1)
     |-> list[first + i - 1]]

\* The pages of l records at offsets o, o + l, ... one after the other.
RECURSIVE PagesFrom(_, _, _)
PagesFrom(list, o, l) ==
  IF o >= Len(list) THEN <<>>
  ELSE Paginate(list, [offset |-> o, limit |-> l]) \o PagesFrom(list, o + l, l)

\* C14: pagination in getAllDocuments is applied after sorting: for offset
\* o and limit l >= 1 the result is exactly positions o .. o+l-1 (counted
\* from 0) of the full sorted list, so with no mutation in between, pages
\* at offsets 0, l, 2l, ... are pairwise disjoint and concatenate to the
\* full list.
C14_PaginationAfterSort ==
  (/\ Done(1, "getAllDocuments") /\ OnOpenConnection(1)
   /\ "limit" \in DOMAIN req[1].arg
   /\ req[1].arg.limit >= 1)
    => /\ result[1].success
       /\ LET o == req[1].arg.offset
              l == req[1].arg.limit
              full == FullList(req[1].arg)
              page(k) == Paginate(full, [offset |-> k * l, limit |-> l])
              ids(k) == {page(k)[i].id : i \in 1..Len(page(k))}
          IN /\ PermutationOf(full, documents)
             /\ result[1].data[1] = Positions(full, o + 1, o + l)
             /\ result[1].recordsAffected = Len(result[1].data[1])
             /\ PagesFrom(full, 0, l) = full
             /\ \A j, k \in 0..Len(full) : j # k => ids(j) \cap ids(k) = {}

\* The second and third of three documents sorted by size, largest first:
\* slicing the list as retrieved would have returned documents 2 and 3.
C14_Witness ==
  /\ Done(1, "getAllDocuments") /\ OnOpenConnection(1)
  /\ req[1].arg.sortBy = "size" /\ req[1].arg.sortDirection = "desc"
  /\ req[1].arg.useIndex = "" /\ req[1].arg.offset = 1
  /\ "limit" \in DOMAIN req[1].arg /\ req[1].arg.limit = 2
  /\ Cardinality(DOMAIN documents) = 3
  /\ result[1].success
  /\ Len(result[1].data[1]) = 2
  /\ result[1].data[1][1].id = 1
  /\ result[1].data[1][2].id = 3

ListOps ==
  {"getAllDocuments", "getDocumentsByType", "getProcessingResultsByDocument",
   "getActiveTemplates", "getAuditLogs"}

\* The QueryOptions of the list call of caller c.
OptionsOf(c) ==
  IF req[c].op \in {"getDocumentsByType", "getProcessingResultsByDocument"}
  THEN req[c].arg.options
  ELSE req[c].arg

\* C15: in every list operation (getAllDocuments, getDocumentsByType,
\* getProcessingResultsByDocument, getActiveTemplates, getAuditLogs) the
\* limit option is the maximum number of results: for every supplied limit
\* >= 0, including 0, the number of records returned and the reported
\* recordsAffected never exceed limit.
C15_LimitIsMaximum ==
  \A c \in Callers :
    (/\ pc[c] = "done" /\ req[c].op \in ListOps
     /\ result[c].success
     /\ "limit" \in DOMAIN OptionsOf(c))
      => /\ Len(result[c].data[1]) <= OptionsOf(c).limit
         /\ result[c].recordsAffected <= OptionsOf(c).limit

\* The list holds exactly the records of the store with the given ids, each
\* once and as stored.
ExactlyThe(list, store, ids) ==
  /\ Len(list) = Cardinality(ids)
  /\ {list[i].id : i \in 1..Len(list)} = ids
  /\ \A i \in 1..Len(list) : list[i] = store[list[i].id]

\* C16: each filtered listing is sound and complete when called without
\* pagination: getDocumentsByType(t) returns exactly the stored documents
\* whose type equals t, getProcessingResultsByDocument(d) exactly the
\* stored results whose documentId equals d, and getActiveTemplates()
\* exactly the stored templates whose isActive is true.
C16_FilteredListingsExact ==
  /\ (/\ Done(1, "getDocumentsByType") /\ OnOpenConnection(1)
      /\ Unpaginated(req[1].arg.options))
       => /\ result[1].success
          /\ ExactlyThe(result[1].data[1], documents,
                        {i \in DOMAIN documents :
                           documents[i].type = req[1].arg.type})
  /\ (/\ Done(1, "getProcessingResultsByDocument") /\ OnOpenConnection(1)
      /\ Unpaginated(req[1].arg.options))
       => /\ result[1].success
          /\ ExactlyThe(result[1].data[1], processedResults,
                        {i \in DOMAIN processedResults :
                           processedResults[i].documentId
                             = req[1].arg.documentId})
  /\ (/\ Done(1, "getActiveTemplates") /\ OnOpenConnection(1)
      /\ Unpaginated(req[1].arg))
       => /\ result[1].success
          /\ ExactlyThe(result[1].data[1], templates,
                        {i \in DOMAIN templates : templates[i].isActive})

\* Two of three stored documents are JPEGs and are the ones returned.
C16_Witness ==
  /\ Done(1, "getDocumentsByType") /\ OnOpenConnection(1)
  /\ Unpaginated(req[1].arg.options)
  /\ req[1].arg.type = "image/jpeg"
  /\ Cardinality(DOMAIN documents) = 3
  /\ result[1].success
  /\ Len(result[1].data[1]) = 2
  /\ \E i \in DOMAIN documents : documents[i].type = "application/pdf"

\* C17: after a successful clearAllData() with no operation in between,
\* getDatabaseStats() reports zero for documentCount,
\* processingResultCount, templateCount, auditLogCount and totalSize;
\* clearAllData itself appends no audit entry.
C17_ClearThenStatsZero ==
  /\ (Done(1, "clearAllData") /\ result[1].success)
       => /\ documents = Empty /\ processedResults = Empty
          /\ templates = Empty /\ auditLogs = Empty
  /\ (Done(1, "getDatabaseStats") /\ pre[1].last.op = "clearAllData")
       => /\ result[1].success
          /\ LET stats == result[1].data[1] IN
             /\ stats.documentCount = 0
             /\ stats.processingResultCount = 0
             /\ stats.templateCount = 0
             /\ stats.auditLogCount = 0
             /\ stats.totalSize = 0

\* The statistics after clearing a database in which two operations had
\* been logged.
C17_Witness ==
  /\ Done(1, "getDatabaseStats")
  /\ pre[1].last.op = "clearAllData"
  /\ auditKeyGen = 2
  /\ result[1].success
  /\ result[1].data[1].auditLogCount = 0

\* The sum of the size field over the documents stored under the ids.
RECURSIVE SizeOf(_)
SizeOf(ids) ==
  IF ids = {} THEN 0
  ELSE LET i == CHOOSE x \in ids : TRUE
       IN documents[i].size + SizeOf(ids \ {i})

\* C18: after any sequence of awaited operations, getDatabaseStats()
\* returns documentCount, processingResultCount, templateCount and
\* auditLogCount equal to the current number of records in the respective
\* collections, and totalSize equal to the sum of the size field over all
\* stored documents.
C18_StatsAreCurrent ==
  (Done(1, "getDatabaseStats") /\ OnOpenConnection(1))
    => /\ result[1].success
       /\ LET stats == result[1].data[1] IN
          /\ stats.documentCount = Cardinality(DOMAIN documents)
          /\ stats.processingResultCount = Cardinality(DOMAIN processedResults)
          /\ stats.templateCount = Cardinality(DOMAIN templates)
          /\ stats.auditLogCount = Cardinality(DOMAIN auditLogs)
          /\ stats.totalSize = SizeOf(DOMAIN documents)

\* The statistics of a database holding two documents of 200 and 300 bytes.
C18_Witness ==
  /\ Done(1, "getDatabaseStats") /\ OnOpenConnection(1)
  /\ result[1].success
  /\ result[1].data[1].documentCount = 2
  /\ result[1].data[1].auditLogCount = 2
  /\ result[1].data[1].totalSize = 500

\* The collection a mutating operation writes its record to.
OwnCollection(op) ==
  CASE op \in {"addDocument", "updateDocument", "deleteDocument"}
         -> "documents"
    [] op = "addProcessingResult" -> "processedResults"
    [] op = "addTemplate" -> "templates"
    [] OTHER -> "auditLogs"

\* The audit log holds every entry it held at the call of caller c,
\* unchanged, and at most one more.
AuditOnlyAppended(c) ==
  /\ \A k \in DOMAIN pre[c].auditLogs :
       k \in DOMAIN auditLogs /\ auditLogs[k] = pre[c].auditLogs[k]
  /\ Cardinality(NewEntries(c)) <= 1

\* C19: each mutating operation changes only its own collection and the
\* audit log; in particular deleteDocument(id) leaves the
\* processing-result and template collections unchanged, so results whose
\* documentId is the deleted id are still returned by
\* getProcessingResultsByDocument(id).
C19_WritesStayInOwnCollection ==
  /\ (pc[1] = "done" /\ req[1].op \in MutatingOps)
       => /\ OwnCollection(req[1].op) # "documents"
               => documents = pre[1].documents
          /\ OwnCollection(req[1].op) # "processedResults"
               => processedResults = pre[1].processedResults
          /\ OwnCollection(req[1].op) # "templates"
               => templates = pre[1].templates
          /\ AuditOnlyAppended(1)
  /\ (/\ Done(1, "getProcessingResultsByDocument")
      /\ pre[1].last.op = "deleteDocument"
      /\ pre[1].last.arg = req[1].arg.documentId)
       => /\ result[1].success
          /\ ExactlyThe(result[1].data[1], processedResults,
                        {i \in DOMAIN processedResults :
                           processedResults[i].documentId
                             = req[1].arg.documentId})
          /\ \A k \in DOMAIN auditLogs :
               auditLogs[k].action = "processing_result_add"
                 => auditLogs[k].resourceId \in DOMAIN processedResults

\* Document 1 has been deleted, as the audit log records, and its two
\* processing results are returned.
C19_Witness ==
  /\ Done(1, "getProcessingResultsByDocument")
  /\ pre[1].last.op = "deleteDocument"
  /\ pre[1].last.arg = 1 /\ req[1].arg.documentId = 1
  /\ 1 \notin DOMAIN documents
  /\ \E k \in DOMAIN auditLogs :
       auditLogs[k].action = "document_delete" /\ auditLogs[k].resourceId = 1
  /\ result[1].success
  /\ Len(result[1].data[1]) = 2
  /\ \A i \in 1..2 : result[1].data[1][i].documentId = 1

ReadOps ==
  {"getDocument", "getAllDocuments", "getDocumentsByType",
   "getProcessingResultsByDocument", "getActiveTemplates", "getAuditLogs",
   "getDatabaseStats"}

\* C20: read operations (getDocument, getAllDocuments, getDocumentsByType,
\* getProcessingResultsByDocument, getActiveTemplates, getAuditLogs,
\* getDatabaseStats) leave all four collections unchanged: no record, no
\* modified timestamp and no audit entry is created or altered by a read.
C20_ReadsChangeNothing ==
  [][(req[1].op \in ReadOps /\ pc[1] \in {"await", "run"})
       => UNCHANGED <<documents, processedResults, templates, auditLogs,
                      auditKeyGen>>]_vars

\* A read has returned a stored document whose modified time is not the
\* current time, from a database with one audit entry.
C20_Witness ==
  /\ Done(1, "getDocument") /\ OnOpenConnection(1)
  /\ result[1].success
  /\ result[1].data # <<>>
  /\ result[1].data[1] = documents[req[1].arg]
  /\ result[1].data[1].modified # now
  /\ Cardinality(DOMAIN auditLogs) = 1
  /\ StoresAsAtCall(1)

\* A byte sequence without its trailing zero bytes.
RECURSIVE StripZeros(_)
StripZeros(bytes) ==
  IF bytes # <<>> /\ bytes[Len(bytes)] = 0
  THEN StripZeros(SubSeq(bytes, 1, Len(bytes) - 1))
  ELSE bytes

\* decrypt has been applied to what encrypt returned for a non-empty
\* plaintext and a non-empty password, with a non-empty password.
RoundTripDone ==
  /\ cryptoCall.phase = "decrypted"
  /\ window
  /\ cryptoCall.plaintext # <<>>
  /\ cryptoCall.password # <<>>
  /\ cryptoCall.attempt # <<>>

ReachedAddDocument ==
  upload.phase \in {"addDocument", "fetchDocuments", "finally"}

CarriesCiphertext(doc) ==
  /\ upload.encryptedPayload.ok
  /\ LET payload == upload.encryptedPayload.value[1] IN
     /\ doc.encryptedData = payload.ciphertext
     /\ Base64ToArray(doc.metadata.crypto.salt) = payload.salt
     /\ Base64ToArray(doc.metadata.crypto.iv) = payload.iv
     /\ Decrypted(doc.encryptedData, tempPassword,
                  Base64ToArray(doc.metadata.crypto.salt),
                  Base64ToArray(doc.metadata.crypto.iv))
          = Fulfilled(upload.file[1].content)

C22_UploadOnlyAfterEncryption ==
  /\ ReachedAddDocument => CarriesCiphertext(upload.newDocument[1])
  /\ req[1].op = "addDocument" =>
       /\ ReachedAddDocument
       /\ req[1].arg = upload.newDocument[1]
  /\ \A id \in DOMAIN documents :
       /\ upload.newDocument # <<>>
       /\ documents[id] = upload.newDocument[1]
       /\ CarriesCiphertext(documents[id])
  /\ upload.failedAt # "" =>
       /\ upload.phase = "done"
       /\ req[1] = NoReq
       /\ pc[1] = "idle"
       /\ documents = Empty
       /\ auditLogs = Empty

\* An upload has run to its end: the encrypted document is stored and
\* listed on the page.
C22_Witness ==
  /\ upload.phase = "done"
  /\ upload.alert = ""
  /\ Len(upload.documents) = 1
  /\ upload.documents[1].encryptedData
       = upload.encryptedPayload.value[1].ciphertext
  /\ DOMAIN documents = {upload.newDocument[1].id}

\* C23: during one recognize call with a progress callback every reported
\* value is an integer in 0..100, the values never decrease, no value
\* above 90 is reported before recognition completes, 100 is reported
\* exactly once and only after successful recognition, and no callback
\* is made after the call has settled.
Reported == ocr.reported

Settled == ocr.recognize \in {"resolved", "rejected"}

Hundreds == { i \in 1..Len(Reported) : Reported[i] = 100 }

ProgressInOrder ==
  /\ \A i \in 1..Len(Reported) : Reported[i] \in 0..100
  /\ \A i, j \in 1..Len(Reported) : i < j => Reported[i] <= Reported[j]
  /\ ocr.recognize = "recognizing" =>
       \A i \in 1..Len(Reported) : Reported[i] <= 90
  /\ ocr.recognize = "resolved" /\ ocr.onProgress =>
       /\ Hundreds = {Len(Reported)}
       /\ \A i \in 1..(Len(Reported) - 1) : Reported[i] <= 90
  /\ ocr.recognize # "resolved" => Hundreds = {}
  /\ ~ocr.onProgress => Reported = <<>>
  /\ Settled => ~ocr.progressInterval

C23_ProgressReports ==
  /\ [](ocr.phase = "on" => ProgressInOrder)
  /\ [][ocr.phase = "on" /\ Settled => ocr.reported' = ocr.reported]_vars

\* A recognition whose counter reached the cap before it succeeded: the
\* last interval reports are 90, 90 and the final report is 100.
C23_Witness ==
  /\ ocr.phase = "on"
  /\ ocr.recognize = "resolved"
  /\ Len(Reported) >= 3
  /\ Reported[Len(Reported)] = 100
  /\ Reported[Len(Reported) - 1] = 90
  /\ Reported[Len(Reported) - 2] = 90
  /\ Reported[1] = 7

\* C28: after terminate() has resolved, and as long as no later recognize
\* or waitForReady call is made, the service holds no worker, also when
\* terminate was called during the initialisation started by the
\* constructor.
C28_TerminatedStaysDown ==
  ocr.phase = "on" /\ ocr.quiet => ~ocr.worker /\ ~isReady

\* C24: getProcessingResultsByDocument and getActiveTemplates return
\* their results ordered by the sortBy field in the sortDirection given in
\* the query options.
OrderedBy(list, sortBy, sortDirection) ==
  \A i, j \in 1..Len(list) :
    i < j =>
      LET a == FieldKey(list[i], sortBy)
          b == FieldKey(list[j], sortBy)
      IN a # <<>> /\ b # <<>> =>
           IF sortDirection = "desc" THEN a[1] >= b[1] ELSE a[1] <= b[1]

C24_FilteredListingsSorted ==
  /\ (/\ Done(1, "getProcessingResultsByDocument") /\ result[1].success
      /\ req[1].arg.options.sortBy # "")
       => OrderedBy(result[1].data[1], req[1].arg.options.sortBy,
                    req[1].arg.options.sortDirection)
  /\ (/\ Done(1, "getActiveTemplates") /\ result[1].success
      /\ req[1].arg.sortBy # "")
       => OrderedBy(result[1].data[1], req[1].arg.sortBy,
                    req[1].arg.sortDirection)

\* C25: updateDocument(D) with an identifier that is not stored does not
\* fail: it inserts D as a new record, returns success with
\* recordsAffected 1 and appends a document_update audit entry, so the
\* document count grows by one.
UpsertDone ==
  /\ Done(1, "updateDocument")
  /\ OnOpenConnection(1)
  /\ req[1].arg.id \notin DOMAIN pre[1].documents

C25_UpdateInsertsMissing ==
  UpsertDone =>
    LET doc == req[1].arg IN
    /\ result[1].success
    /\ result[1].recordsAffected = 1
    /\ DOMAIN documents = DOMAIN pre[1].documents \cup {doc.id}
    /\ Cardinality(DOMAIN documents)
         = Cardinality(DOMAIN pre[1].documents) + 1
    /\ [documents[doc.id] EXCEPT !.modified = 0]
         = [doc EXCEPT !.modified = 0]
    /\ \A i \in DOMAIN pre[1].documents :
         documents[i] = pre[1].documents[i]
    /\ DOMAIN auditLogs = DOMAIN pre[1].auditLogs \cup {auditKeyGen}
    /\ auditKeyGen \notin DOMAIN pre[1].auditLogs
    /\ auditLogs[auditKeyGen].action = "document_update"
    /\ auditLogs[auditKeyGen].resourceId = doc.id

\* An update of document 2 while only document 1 is stored has inserted
\* document 2.
C25_Witness ==
  /\ UpsertDone
  /\ req[1].arg.id = 2
  /\ DOMAIN pre[1].documents = {1}
  /\ DOMAIN documents = {1, 2}
  /\ result[1].recordsAffected = 1

\* C26: for every interleaving of two concurrent deleteDocument(id) calls
\* on a stored document, exactly one call reports recordsAffected 1 and
\* exactly one document_delete audit entry is appended for that id.
BothDeleted ==
  /\ Done(1, "deleteDocument") /\ Done(2, "deleteDocument")
  /\ req[1].arg = req[2].arg
  /\ \A c \in Callers : req[c].arg \in DOMAIN pre[c].documents

C26_OneConcurrentDeleteCounts ==
  BothDeleted =>
    /\ Cardinality({c \in Callers : result[c].recordsAffected = 1}) = 1
    /\ Cardinality({k \in DOMAIN auditLogs :
                      /\ auditLogs[k].action = "document_delete"
                      /\ auditLogs[k].resourceId = req[1].arg}) = 1

\* C27: every getDatabaseStats result is a consistent snapshot even when
\* document mutations interleave with the call: totalSize is the sum of
\* the sizes of exactly documentCount documents that were all stored at
\* one same instant.  The other caller writes the documents at most once,
\* so the instants are the one of the call and the present one.
RECURSIVE SumOfSizes(_, _)
SumOfSizes(store, ids) ==
  IF ids = {} THEN 0
  ELSE LET i == CHOOSE x \in ids : TRUE
       IN store[i].size + SumOfSizes(store, ids \ {i})

SnapshotOf(stats, store) ==
  /\ stats.documentCount = Cardinality(DOMAIN store)
  /\ stats.totalSize = SumOfSizes(store, DOMAIN store)

C27_StatsAreSnapshot ==
  \A c \in Callers :
    (Done(c, "getDatabaseStats") /\ result[c].success)
      => \/ SnapshotOf(result[c].data[1], pre[c].documents)
         \/ SnapshotOf(result[c].data[1], documents)

\* C29: in ClassificationModal at most one classification run is in
\* flight at any time, across any order of open, close, reopen and retry
\* events.
C29_OneRunInFlight ==
  classificationModal.phase = "on" => Len(classificationModal.runs) <= 1

\* C30: whenever the classification or OCR modal is closed its processing
\* state is reset (state idle / not processing, no result, no error,
\* progress 0), so a run that was started before the close and completes
\* afterwards never leaves a result that is shown when the modal is
\* reopened, possibly for another document.
ClassificationModalReset ==
  LET m == classificationModal IN
  /\ ~m.isOpen =>
       m.state = "idle" /\ m.result = 0 /\ ~m.error /\ m.progress = 0
  /\ m.isOpen /\ m.result # 0 => m.result = m.document

OcrModalReset ==
  LET m == ocrModal IN
  /\ ~m.isOpen =>
       ~m.isProcessing /\ m.result = 0 /\ ~m.error /\ m.progress = 0
  /\ m.isOpen /\ m.result # 0 => m.result = m.document

C30_ClosedModalIsReset ==
  /\ classificationModal.phase = "on" => ClassificationModalReset
  /\ ocrModal.phase = "on" => OcrModalReset

====
